---- MODULE Spec2Model ----
\* Model of the coordinate transformation engine of liyq0307/3dtiles:
\* CoordinateSystem (coordinate_system.h/.cpp), CoordinateTransformer
\* (coordinate_transformer.h/.cpp) and the process-global GeoidCalculator
\* (GeoidHeight.h/.cpp).
\*
\* Numbers are integers.  Angles are whole degrees and every longitude and
\* latitude the model produces is a multiple of 90, where sin and cos are
\* exactly -1, 0 or 1, so the ENU basis is an integer rotation and the 4x4
\* inverse is exact.  Lengths are whole metres.
EXTENDS Integers, Sequences, FiniteSets, TLC

\* ---------------------------------------------------------------------------
\* Bounds of the model
\* ---------------------------------------------------------------------------

\* input points are Pt(-MaxPoint) .. Pt(MaxPoint)
MaxPoint == 1

\* batch calls take vectors of 0 .. MaxBatch points
MaxBatch == 2

\* ---------------------------------------------------------------------------
\* WGS84 ellipsoid (coordinate_transformer.cpp), rounded to whole metres
\* ---------------------------------------------------------------------------

\* semi-major axis a
WGS84_A == 6378137

\* N = a / sqrt(1 - e2) at sin(phi)^2 = 1
WGS84_N_POLE == 6399594

\* N * (1 - e2) at sin(phi)^2 = 1 (the semi-minor axis)
WGS84_B == 6356752

\* N * (1 - e2) at sin(phi) = 0
WGS84_N1E2_EQUATOR == 6335439

\* sin and cos of an angle in degrees; every angle of the model is a multiple
\* of 90 (std::sin / std::cos after the deg -> rad conversion)
SinDeg(d) ==
    CASE d % 360 = 0   -> 0
      [] d % 360 = 90  -> 1
      [] d % 360 = 180 -> 0
      [] d % 360 = 270 -> -1

CosDeg(d) ==
    CASE d % 360 = 0   -> 1
      [] d % 360 = 90  -> 0
      [] d % 360 = 180 -> -1
      [] d % 360 = 270 -> 0

\* prime-vertical radius of curvature N = a / sqrt(1 - e2 sin^2 phi)
PrimeVerticalRadius(sinPhi) ==
    IF sinPhi = 0 THEN WGS84_A ELSE WGS84_N_POLE

\* N * (1 - e2)
PrimeVerticalRadiusE2(sinPhi) ==
    IF sinPhi = 0 THEN WGS84_N1E2_EQUATOR ELSE WGS84_B

\* ---------------------------------------------------------------------------
\* glm: dvec3 = <<x, y, z>>, dvec4 = <<x, y, z, w>>,
\* dmat4 = <<col0, col1, col2, col3>> (column-major), m[c][r]
\* ---------------------------------------------------------------------------

\* glm::dvec4(v, 1.0)
Vec4(v) == <<v[1], v[2], v[3], 1>>

\* glm::dvec3(v4): the first three components
Vec3(v) == <<v[1], v[2], v[3]>>

\* glm::dmat4(1.0)
Identity4 ==
    << <<1, 0, 0, 0>>, <<0, 1, 0, 0>>, <<0, 0, 1, 0>>, <<0, 0, 0, 1>> >>

\* m * v: the columns of m weighted by the components of v
MatVec(m, v) ==
    [r \in 1..4 |-> m[1][r] * v[1] + m[2][r] * v[2] + m[3][r] * v[3] + m[4][r] * v[4]]

\* the three indices of 1..4 other than k, in order
Others(k) ==
    CASE k = 1 -> <<2, 3, 4>>
      [] k = 2 -> <<1, 3, 4>>
      [] k = 3 -> <<1, 2, 4>>
      [] k = 4 -> <<1, 2, 3>>

\* determinant of the 3x3 submatrix of m with columns cs and rows rs
Det3(m, cs, rs) ==
      m[cs[1]][rs[1]] * (m[cs[2]][rs[2]] * m[cs[3]][rs[3]] - m[cs[3]][rs[2]] * m[cs[2]][rs[3]])
    - m[cs[2]][rs[1]] * (m[cs[1]][rs[2]] * m[cs[3]][rs[3]] - m[cs[3]][rs[2]] * m[cs[1]][rs[3]])
    + m[cs[3]][rs[1]] * (m[cs[1]][rs[2]] * m[cs[2]][rs[3]] - m[cs[2]][rs[2]] * m[cs[1]][rs[3]])

\* signed cofactor of the entry in column c, row r
Cofactor(m, c, r) ==
    (IF (c + r) % 2 = 0 THEN 1 ELSE -1) * Det3(m, Others(c), Others(r))

\* determinant, expanded along the first row
Det4(m) ==
    m[1][1] * Cofactor(m, 1, 1) + m[2][1] * Cofactor(m, 2, 1)
  + m[3][1] * Cofactor(m, 3, 1) + m[4][1] * Cofactor(m, 4, 1)

\* exact integer quotient (the model's matrices have determinant 1)
Quot(a, b) ==
    IF b < 0 THEN (0 - a) \div (0 - b) ELSE a \div b

\* a broken inverse: the rotation is transposed but the translation is kept
InverseKeepTranslation(m) ==
    [c \in 1..4 |-> [r \in 1..4 |->
        IF c <= 3 /\ r <= 3 THEN m[r][c] ELSE m[c][r]]]

\* glm::inverse: transposed cofactor matrix over the determinant
Inverse(m) ==
    [c \in 1..4 |-> [r \in 1..4 |-> Quot(Cofactor(m, r, c), Det4(m))]]

\* ---------------------------------------------------------------------------
\* CoordinateSystem (coordinate_system.h / coordinate_system.cpp)
\* ---------------------------------------------------------------------------

UpAxis == {"Y_UP", "Z_UP"}

Handedness == {"RightHanded", "LeftHanded"}

VerticalDatum == {"Ellipsoidal", "Orthometric", "Unknown"}

\* CoordinateSystem() = default: type Unknown, params monostate
DefaultCS ==
    [type |-> "Unknown", params |-> [monostate |-> TRUE]]

\* CoordinateSystem::LocalCartesian(up_axis, handedness)
LocalCartesian(up_axis, handedness) ==
    [type |-> "LocalCartesian",
     params |-> [up_axis |-> up_axis, handedness |-> handedness]]

\* CoordinateSystem::ENU(lon, lat, height, offset_x, offset_y, offset_z)
ENU(lon, lat, height, offset_x, offset_y, offset_z) ==
    [type |-> "ENU",
     params |-> [origin_lon |-> lon, origin_lat |-> lat, origin_height |-> height,
                 offset_x |-> offset_x, offset_y |-> offset_y, offset_z |-> offset_z]]

\* CoordinateSystem::EPSG(code, origin_x, origin_y, origin_z, vertical_datum)
EPSG(code, origin_x, origin_y, origin_z, vertical_datum) ==
    [type |-> "EPSG",
     params |-> [code |-> code, origin_x |-> origin_x, origin_y |-> origin_y,
                 origin_z |-> origin_z, vertical_datum |-> vertical_datum]]

\* CoordinateSystem::WKT(wkt, origin_x, origin_y, origin_z, vertical_datum)
WKT(wkt, origin_x, origin_y, origin_z, vertical_datum) ==
    [type |-> "WKT",
     params |-> [wkt |-> wkt, origin_x |-> origin_x, origin_y |-> origin_y,
                 origin_z |-> origin_z, vertical_datum |-> vertical_datum]]

NeedsOGRTransform(cs) ==
    cs.type = "EPSG" \/ cs.type = "WKT"

\* a GetSourceOrigin that answers with the geographic origin of an ENU system
GetSourceOriginGeographic(cs) ==
    CASE cs.type = "ENU"  -> <<cs.params.origin_lon, cs.params.origin_lat, cs.params.origin_height>>
      [] cs.type = "EPSG" -> <<cs.params.origin_x, cs.params.origin_y, cs.params.origin_z>>
      [] cs.type = "WKT"  -> <<cs.params.origin_x, cs.params.origin_y, cs.params.origin_z>>
      [] OTHER            -> <<0, 0, 0>>

GetSourceOrigin(cs) ==
    CASE cs.type = "ENU"  -> <<cs.params.offset_x, cs.params.offset_y, cs.params.offset_z>>
      [] cs.type = "EPSG" -> <<cs.params.origin_x, cs.params.origin_y, cs.params.origin_z>>
      [] cs.type = "WKT"  -> <<cs.params.origin_x, cs.params.origin_y, cs.params.origin_z>>
      [] OTHER            -> <<0, 0, 0>>

GetVerticalDatum(cs) ==
    CASE cs.type = "EPSG"           -> cs.params.vertical_datum
      [] cs.type = "WKT"            -> cs.params.vertical_datum
      [] cs.type = "ENU"            -> "Ellipsoidal"
      [] cs.type = "LocalCartesian" -> "Ellipsoidal"
      [] OTHER                      -> "Unknown"

GetUpAxis(cs) ==
    IF cs.type = "LocalCartesian" THEN cs.params.up_axis ELSE "Y_UP"

\* GeoReference::FromDegrees(lon, lat, height, datum)
GeoReference(lon, lat, height) ==
    [lon |-> lon, lat |-> lat, height |-> height, datum |-> "Ellipsoidal"]

\* ---------------------------------------------------------------------------
\* GeoidCalculator (GeoidHeight.h / GeoidHeight.cpp), one process-global
\* instance: geoid_ is "null" or the name of the loaded grid
\* ---------------------------------------------------------------------------

GeoidModel == {"NONE", "EGM84", "EGM96", "EGM2008"}

\* the grid name Initialize loads for a model
GeoidName(model) ==
    CASE model = "EGM84"   -> "egm84-15"
      [] model = "EGM96"   -> "egm96-5"
      [] model = "EGM2008" -> "egm2008-5"

\* GeoidCalculator(): model_ NONE, geoid_ null
NewGeoidCalculator ==
    [model_ |-> "NONE", geoid_ |-> "null"]

\* GeoidCalculator::Initialize; loaded says whether the grid file could be
\* read (the GeographicLib::Geoid constructor did not throw)
Initialize(calc, model, loaded) ==
    IF model = "NONE" THEN [model_ |-> "NONE", geoid_ |-> "null"]
    ELSE IF loaded THEN [model_ |-> model, geoid_ |-> GeoidName(model)]
    ELSE [calc EXCEPT !.geoid_ = "null"]

IsInitialized(calc) ==
    calc.geoid_ # "null"

\* GeographicLib::Geoid::operator(): the undulation of the loaded grid at
\* (lat, lon) in metres; the two grids differ
GridUndulation(name, lat, lon) ==
    (IF name = "egm96-5" THEN 10 ELSE 20) + (lat % 360) \div 90 + 2 * ((lon % 360) \div 90)

\* the lookup throws where the grid cannot be read: here the cells of the
\* longitude band at 270 degrees
GridLookupThrows(lat, lon) ==
    lon % 360 = 270

\* GeoidCalculator::GetGeoidHeight: [has |-> FALSE] is std::nullopt
GetGeoidHeight(calc, lat, lon) ==
    IF calc.geoid_ = "null" THEN [has |-> FALSE, value |-> 0]
    ELSE IF GridLookupThrows(lat, lon) THEN [has |-> FALSE, value |-> 0]
    ELSE [has |-> TRUE, value |-> GridUndulation(calc.geoid_, lat, lon)]

ConvertOrthometricToEllipsoidal(calc, lat, lon, orthometricHeight) ==
    IF GetGeoidHeight(calc, lat, lon).has
    THEN orthometricHeight + GetGeoidHeight(calc, lat, lon).value
    ELSE orthometricHeight

\* ---------------------------------------------------------------------------
\* CoordinateTransformer (coordinate_transformer.h / coordinate_transformer.cpp)
\* ---------------------------------------------------------------------------

\* GeoidConfig::Disabled(): {false}, the other members keep their defaults
GeoidConfigDisabled ==
    [enabled |-> FALSE, model |-> "EGM96", data_path |-> ""]

\* GeoidConfig::EGM96(path)
GeoidConfigEGM96(path) ==
    [enabled |-> TRUE, model |-> "EGM96", data_path |-> path]

\* GeoidConfig::EGM2008(path)
GeoidConfigEGM2008(path) ==
    [enabled |-> TRUE, model |-> "EGM2008", data_path |-> path]

\* an empty std::unique_ptr<OGRCoordinateTransformation>
NullHandle ==
    [crs |-> "null", key |-> "null"]

\* OGRCoordinateTransformation::Transform of the projection library, from the
\* source CRS to WGS84 (lon, lat, h) in traditional GIS order.  The CRS of
\* the model count a quarter turn per unit; the WKT one also has a false
\* easting and a height shift.
Transform(handle, p) ==
    IF handle.crs = "EPSG"
    THEN <<90 * p[1], 90 * p[2], p[3]>>
    ELSE <<90 * p[1] + 90, 90 * p[2], p[3] + 1>>

\* CreateOGRTransform: created says whether OGRCreateCoordinateTransformation
\* returned a transformation; the result is the new ogr_transform_
CreateOGRTransform(source_cs, created) ==
    IF ~created THEN NullHandle
    ELSE IF source_cs.type = "EPSG" THEN [crs |-> "EPSG", key |-> source_cs.params.code]
    ELSE [crs |-> "WKT", key |-> source_cs.params.wkt]

\* a policy that also corrects ellipsoidal heights
ShouldApplyIgnoringDatum(source_cs, geoid_config, calc) ==
    /\ geoid_config.enabled
    /\ IsInitialized(calc)
    /\ source_cs.type \in {"EPSG", "WKT"}

ShouldApplyGeoidCorrection(source_cs, geoid_config, calc) ==
    IF ~geoid_config.enabled THEN FALSE
    ELSE IF ~IsInitialized(calc) THEN FALSE
    ELSE CASE source_cs.type \in {"EPSG", "WKT"} ->
                  GetVerticalDatum(source_cs) \in {"Orthometric", "Unknown"}
           [] OTHER -> FALSE

ApplyGeoidCorrection(source_cs, geoid_config, calc, lat, lon, height) ==
    IF ~ShouldApplyGeoidCorrection(source_cs, geoid_config, calc) THEN height
    ELSE ConvertOrthometricToEllipsoidal(calc, lat, lon, height)

CartographicToEcef(lon_deg, lat_deg, height) ==
    LET sinPhi == SinDeg(lat_deg)
        cosPhi == CosDeg(lat_deg)
        sinLon == SinDeg(lon_deg)
        cosLon == CosDeg(lon_deg)
        N      == PrimeVerticalRadius(sinPhi)
    IN  << (N + height) * cosPhi * cosLon,
           (N + height) * cosPhi * sinLon,
           (PrimeVerticalRadiusE2(sinPhi) + height) * sinPhi >>

\* a matrix whose basis vectors and translation are laid out as rows
CalcEnuToEcefMatrixRowMajor(lon_deg, lat_deg, height) ==
    LET sinPhi == SinDeg(lat_deg)
        cosPhi == CosDeg(lat_deg)
        sinLon == SinDeg(lon_deg)
        cosLon == CosDeg(lon_deg)
        N      == PrimeVerticalRadius(sinPhi)
        x0     == (N + height) * cosPhi * cosLon
        y0     == (N + height) * cosPhi * sinLon
        z0     == (PrimeVerticalRadiusE2(sinPhi) + height) * sinPhi
    IN  << <<0 - sinLon, 0 - sinPhi * cosLon, cosPhi * cosLon, x0>>,
           <<cosLon, 0 - sinPhi * sinLon, cosPhi * sinLon, y0>>,
           <<0, cosPhi, sinPhi, z0>>,
           <<0, 0, 0, 1>> >>

CalcEnuToEcefMatrix(lon_deg, lat_deg, height) ==
    LET sinPhi == SinDeg(lat_deg)
        cosPhi == CosDeg(lat_deg)
        sinLon == SinDeg(lon_deg)
        cosLon == CosDeg(lon_deg)
        N      == PrimeVerticalRadius(sinPhi)
        x0     == (N + height) * cosPhi * cosLon
        y0     == (N + height) * cosPhi * sinLon
        z0     == (PrimeVerticalRadiusE2(sinPhi) + height) * sinPhi
    IN  << <<0 - sinLon, cosLon, 0, 0>>,
           <<0 - sinPhi * cosLon, 0 - sinPhi * sinLon, cosPhi, 0>>,
           <<cosPhi * cosLon, cosPhi * sinLon, sinPhi, 0>>,
           <<x0, y0, z0, 1>> >>

\* an axis matrix that uses one rotation for both directions
GetAxisTransformMatrixOneWay(from, to) ==
    IF from = to THEN Identity4
    ELSE << <<1, 0, 0, 0>>, <<0, 0, 1, 0>>, <<0, -1, 0, 0>>, <<0, 0, 0, 1>> >>

\* an axis matrix without the from = to short cut
GetAxisTransformMatrixNoIdentity(from, to) ==
    IF to = "Y_UP"
    THEN << <<1, 0, 0, 0>>, <<0, 0, 1, 0>>, <<0, -1, 0, 0>>, <<0, 0, 0, 1>> >>
    ELSE << <<1, 0, 0, 0>>, <<0, 0, -1, 0>>, <<0, 1, 0, 0>>, <<0, 0, 0, 1>> >>

\* the sixteen scalars of the glm::dmat4 constructor fill column 0 first
GetAxisTransformMatrix(from, to) ==
    IF from = to THEN Identity4
    ELSE IF from = "Z_UP" /\ to = "Y_UP"
    THEN << <<1, 0, 0, 0>>, <<0, 0, 1, 0>>, <<0, -1, 0, 0>>, <<0, 0, 0, 1>> >>
    ELSE << <<1, 0, 0, 0>>, <<0, 0, -1, 0>>, <<0, 1, 0, 0>>, <<0, 0, 0, 1>> >>

\* an origin resolution that lets a non-zero geo_ref override the built-in
\* reference of an ENU system
ResolveGeoOriginPreferGeoRef(source_cs, geoid_config, geo_ref, handle, calc) ==
    IF source_cs.type = "ENU" /\ geo_ref.lon = 0 /\ geo_ref.lat = 0
    THEN <<source_cs.params.origin_lon, source_cs.params.origin_lat,
           source_cs.params.origin_height>>
    ELSE IF NeedsOGRTransform(source_cs)
    THEN IF geo_ref.lon # 0 \/ geo_ref.lat # 0
         THEN <<geo_ref.lon, geo_ref.lat,
                IF geoid_config.enabled /\ IsInitialized(calc)
                THEN ApplyGeoidCorrection(source_cs, geoid_config, calc,
                                          geo_ref.lat, geo_ref.lon, geo_ref.height)
                ELSE geo_ref.height>>
         ELSE LET origin == IF handle # NullHandle
                            THEN Transform(handle, GetSourceOrigin(source_cs))
                            ELSE GetSourceOrigin(source_cs)
              IN  <<origin[1], origin[2],
                    ApplyGeoidCorrection(source_cs, geoid_config, calc,
                                         origin[2], origin[1], origin[3])>>
    ELSE <<geo_ref.lon, geo_ref.lat, geo_ref.height>>

\* an origin resolution that takes the projected source origin with its
\* height as projected, never corrected by the geoid
ResolveGeoOriginUncorrected(source_cs, geoid_config, geo_ref, handle, calc) ==
    IF source_cs.type = "ENU"
    THEN <<source_cs.params.origin_lon, source_cs.params.origin_lat,
           source_cs.params.origin_height>>
    ELSE IF NeedsOGRTransform(source_cs)
    THEN IF geo_ref.lon # 0 \/ geo_ref.lat # 0
         THEN <<geo_ref.lon, geo_ref.lat,
                IF geoid_config.enabled /\ IsInitialized(calc)
                THEN ApplyGeoidCorrection(source_cs, geoid_config, calc,
                                          geo_ref.lat, geo_ref.lon, geo_ref.height)
                ELSE geo_ref.height>>
         ELSE IF handle # NullHandle
              THEN Transform(handle, GetSourceOrigin(source_cs))
              ELSE GetSourceOrigin(source_cs)
    ELSE <<geo_ref.lon, geo_ref.lat, geo_ref.height>>

\* the geographic origin InitializeWithGeoRef resolves, <<lon, lat, height>>
ResolveGeoOrigin(source_cs, geoid_config, geo_ref, handle, calc) ==
    IF source_cs.type = "ENU"
    THEN <<source_cs.params.origin_lon, source_cs.params.origin_lat,
           source_cs.params.origin_height>>
    ELSE IF NeedsOGRTransform(source_cs)
    THEN IF geo_ref.lon # 0 \/ geo_ref.lat # 0
         THEN <<geo_ref.lon, geo_ref.lat,
                IF geoid_config.enabled /\ IsInitialized(calc)
                THEN ApplyGeoidCorrection(source_cs, geoid_config, calc,
                                          geo_ref.lat, geo_ref.lon, geo_ref.height)
                ELSE geo_ref.height>>
         ELSE LET origin == IF handle # NullHandle
                            THEN Transform(handle, GetSourceOrigin(source_cs))
                            ELSE GetSourceOrigin(source_cs)
              IN  <<origin[1], origin[2],
                    ApplyGeoidCorrection(source_cs, geoid_config, calc,
                                         origin[2], origin[1], origin[3])>>
    ELSE <<geo_ref.lon, geo_ref.lat, geo_ref.height>>

\* the members after InitializeWithGeoRef(geo_ref) on a transformer whose
\* source_cs_, mode_ and geoid_config_ the constructor has set
InitializeWithGeoRef(source_cs, geoid_config, geo_ref, created, calc) ==
    LET handle == IF source_cs.type # "ENU" /\ NeedsOGRTransform(source_cs)
                  THEN CreateOGRTransform(source_cs, created)
                  ELSE NullHandle
        origin == ResolveGeoOrigin(source_cs, geoid_config, geo_ref, handle, calc)
        enu_to_ecef == CalcEnuToEcefMatrix(origin[1], origin[2], origin[3])
    IN  [source_cs          |-> source_cs,
         mode               |-> "WithGeoReference",
         geo_origin_lon     |-> origin[1],
         geo_origin_lat     |-> origin[2],
         geo_origin_height  |-> origin[3],
         enu_to_ecef        |-> enu_to_ecef,
         ecef_to_enu        |-> Inverse(enu_to_ecef),
         axis_transform     |-> GetAxisTransformMatrix(GetUpAxis(source_cs), "Y_UP"),
         ogr_transform      |-> handle,
         geoid_config       |-> geoid_config]

\* a one-argument constructor that claims a geo-reference
NewTransformerWithGeoMode(cs) ==
    [source_cs          |-> cs,
     mode               |-> "WithGeoReference",
     geo_origin_lon     |-> 0,
     geo_origin_lat     |-> 0,
     geo_origin_height  |-> 0,
     enu_to_ecef        |-> Identity4,
     ecef_to_enu        |-> Identity4,
     axis_transform     |-> Identity4,
     ogr_transform      |-> NullHandle,
     geoid_config       |-> [enabled |-> FALSE, model |-> "EGM96", data_path |-> ""]]

\* CoordinateTransformer(cs): the members keep their default initializers
NewTransformer(cs) ==
    [source_cs          |-> cs,
     mode               |-> "None",
     geo_origin_lon     |-> 0,
     geo_origin_lat     |-> 0,
     geo_origin_height  |-> 0,
     enu_to_ecef        |-> Identity4,
     ecef_to_enu        |-> Identity4,
     axis_transform     |-> Identity4,
     ogr_transform      |-> NullHandle,
     geoid_config       |-> [enabled |-> FALSE, model |-> "EGM96", data_path |-> ""]]

HasGeoReference(t) ==
    t.mode = "WithGeoReference"

\* a ToWGS84 that corrects the projected height with the geoid service, as
\* ToLocalENU does
ToWGS84GeoidCorrected(t, calc, point) ==
    IF ~HasGeoReference(t) THEN point
    ELSE LET result == Vec3(MatVec(t.axis_transform, Vec4(point)))
         IN  IF t.source_cs.type = "ENU"
             THEN <<t.geo_origin_lon, t.geo_origin_lat,
                    t.geo_origin_height + result[3] + t.source_cs.params.offset_z>>
             ELSE IF NeedsOGRTransform(t.source_cs) /\ t.ogr_transform # NullHandle
             THEN LET origin == GetSourceOrigin(t.source_cs)
                      wgs84  == Transform(t.ogr_transform,
                                          <<result[1] + origin[1], result[2] + origin[2],
                                            result[3] + origin[3]>>)
                  IN  <<wgs84[1], wgs84[2],
                        ApplyGeoidCorrection(t.source_cs, t.geoid_config, calc,
                                             wgs84[2], wgs84[1], wgs84[3])>>
             ELSE <<t.geo_origin_lon, t.geo_origin_lat, t.geo_origin_height + result[3]>>

\* an ENU branch that leaves the SRSOrigin offset out of the height
ToWGS84WithoutOffset(t, calc, point) ==
    IF ~HasGeoReference(t) THEN point
    ELSE LET result == Vec3(MatVec(t.axis_transform, Vec4(point)))
         IN  IF t.source_cs.type = "ENU"
             THEN <<t.geo_origin_lon, t.geo_origin_lat, t.geo_origin_height + result[3]>>
             ELSE IF NeedsOGRTransform(t.source_cs) /\ t.ogr_transform # NullHandle
             THEN LET origin == GetSourceOrigin(t.source_cs)
                  IN  Transform(t.ogr_transform,
                                <<result[1] + origin[1], result[2] + origin[2],
                                  result[3] + origin[3]>>)
             ELSE <<t.geo_origin_lon, t.geo_origin_lat, t.geo_origin_height + result[3]>>

ToWGS84(t, calc, point) ==
    IF ~HasGeoReference(t) THEN point
    ELSE LET result == Vec3(MatVec(t.axis_transform, Vec4(point)))
         IN  IF t.source_cs.type = "ENU"
             THEN <<t.geo_origin_lon, t.geo_origin_lat,
                    t.geo_origin_height + result[3] + t.source_cs.params.offset_z>>
             ELSE IF NeedsOGRTransform(t.source_cs) /\ t.ogr_transform # NullHandle
             THEN LET origin == GetSourceOrigin(t.source_cs)
                  IN  Transform(t.ogr_transform,
                                <<result[1] + origin[1], result[2] + origin[2],
                                  result[3] + origin[3]>>)
             ELSE <<t.geo_origin_lon, t.geo_origin_lat, t.geo_origin_height + result[3]>>

ToECEF(t, calc, point) ==
    IF ~HasGeoReference(t) THEN point
    ELSE LET result == Vec3(MatVec(t.axis_transform, Vec4(point)))
         IN  IF t.source_cs.type = "ENU"
             THEN Vec3(MatVec(t.enu_to_ecef,
                              <<result[1] + t.source_cs.params.offset_x,
                                result[2] + t.source_cs.params.offset_y,
                                result[3] + t.source_cs.params.offset_z, 1>>))
             ELSE LET wgs84 == ToWGS84(t, calc, point)
                  IN  CartographicToEcef(wgs84[1], wgs84[2], wgs84[3])

\* a ToLocalENU that runs the up-axis conversion first, as ToWGS84 does
ToLocalENUWithAxis(t, calc, point) ==
    IF ~HasGeoReference(t) THEN point
    ELSE Vec3(MatVec(t.axis_transform, Vec4(point)))

ToLocalENU(t, calc, point) ==
    IF ~HasGeoReference(t) THEN point
    ELSE IF t.source_cs.type = "ENU"
    THEN LET ecef == Vec3(MatVec(t.enu_to_ecef,
                                 <<point[1] + t.source_cs.params.offset_x,
                                   point[2] + t.source_cs.params.offset_y,
                                   point[3] + t.source_cs.params.offset_z, 1>>))
         IN  Vec3(MatVec(t.ecef_to_enu, Vec4(ecef)))
    ELSE IF NeedsOGRTransform(t.source_cs) /\ t.ogr_transform # NullHandle
    THEN LET origin == GetSourceOrigin(t.source_cs)
             wgs84  == Transform(t.ogr_transform,
                                 <<point[1] + origin[1], point[2] + origin[2],
                                   point[3] + origin[3]>>)
             h      == ApplyGeoidCorrection(t.source_cs, t.geoid_config, calc,
                                            wgs84[2], wgs84[1], wgs84[3])
             ecef   == CartographicToEcef(wgs84[1], wgs84[2], h)
         IN  Vec3(MatVec(t.ecef_to_enu, Vec4(ecef)))
    ELSE point

\* TransformToWGS84: every element replaced in place
TransformToWGS84(t, calc, points) ==
    [i \in 1..Len(points) |-> ToWGS84(t, calc, points[i])]

\* TransformToLocalENU: every element replaced in place
TransformToLocalENU(t, calc, points) ==
    [i \in 1..Len(points) |-> ToLocalENU(t, calc, points[i])]

ConvertUpAxis(t, point, target_axis) ==
    Vec3(MatVec(GetAxisTransformMatrix(GetUpAxis(t.source_cs), target_axis), Vec4(point)))

\* ---------------------------------------------------------------------------
\* Inputs
\* ---------------------------------------------------------------------------

\* the i-th input point; Pt(1) is the (1, 2, 3) of test_axis_transform
Pt(i) == <<i, 2 * i, 3 * i>>

Points == {Pt(i) : i \in (0 - MaxPoint)..MaxPoint}

\* the vectors handed to the batch calls: Pt(1), Pt(2), .. and Pt(0), Pt(1), ..
Batches == {[i \in 1..n |-> Pt(i - k)] : n \in 0..MaxBatch, k \in 0..1}

\* the coordinate systems a caller builds with the factories (after any
\* SetVerticalDatum), and the default-constructed one
CoordinateSystems ==
         {DefaultCS}
    \cup {LocalCartesian(u, h) : u \in UpAxis, h \in Handedness}
    \cup {ENU(o[1], o[2], o[3], f[1], f[2], f[3]) :
              o \in {<<90, 0, 7>>}, f \in {<<0, 0, 0>>}}
    \cup {ENU(o[1], o[2], o[3], f[1], f[2], f[3]) :
              o \in {<<0, 90, 0>>}, f \in {<<-958, -993, 69>>}}
    \cup {EPSG(4547, o[1], o[2], o[3], d) :
              o \in {<<90, 0, 3>>}, d \in VerticalDatum}
    \cup {WKT("PROJCS", 0, 0, 0, d) : d \in VerticalDatum}

\* the geo-references a caller passes
GeoReferences ==
    {GeoReference(0, 0, 0), GeoReference(0, 0, 5),
     GeoReference(90, 0, 5), GeoReference(0, 90, 0)}

\* the geoid configurations a caller passes
GeoidConfigs ==
    {GeoidConfigDisabled, GeoidConfigEGM96(""), GeoidConfigEGM2008("")}

\* the models init_geoid is called with
InitModels == {"NONE", "EGM2008"}

\* ---------------------------------------------------------------------------
\* State
\* ---------------------------------------------------------------------------

VARIABLES
    t,      \* the transformer under study, or NoTransformer
    geoid,  \* the process-global GeoidCalculator
    ctor,   \* what the transformer was constructed from (history)
    last,   \* the most recent call: operation, input, output
    ts,     \* the transformer objects of the ownership study, by slot
    handles,\* per projection handle ever created, how often it was released
    sys,    \* the CoordinateSystem value of the value-model study, with the
            \* factory call that made it (history)
    g_transformer, \* tileset.cpp g_transformer: the object it owns, 0 if null
    val,    \* the caller's val[0..2] of epsg_convert / wkt_convert
    held,   \* per thread, the raw pointer get_coordinate_transformer gave it
    temps,  \* temporary projection handles (poCT) created and not destroyed
    allocs  \* transformer objects make_shared has allocated so far

vars == <<t, geoid, ctor, last, ts, handles, sys, g_transformer, val, held, temps, allocs>>

\* the variables of the global-transformer study
global == <<g_transformer, val, held, temps, allocs>>

\* the variables the operations on the transformer under study leave alone
aux == <<ts, handles, sys, global>>

\* the threads of the process that call into the library
Threads == 1..2

\* g_transformer = nullptr, and the null raw pointer
NullTransformer == 0

\* the storage slots transformer objects of the ownership study live in
Slots == 1..2

\* no transformer constructed, or the one there was has been destroyed
NoTransformer ==
    [mode |-> "Absent"]

\* the history of a construction: whether a geo_ref was passed, the geo_ref,
\* geoid_config.enabled as passed, and the grid the geoid service had loaded
\* at that moment
Ctor(with_geo_ref, geo_ref, enabled, geoid_) ==
    [with_geo_ref |-> with_geo_ref, geo_ref |-> geo_ref, enabled |-> enabled,
     geoid_ |-> geoid_]

NoCtor ==
    Ctor(FALSE, GeoReference(0, 0, 0), FALSE, "null")

\* the record of a call
Call(op, in, out, target) ==
    [op |-> op, in |-> in, out |-> out, target |-> target]

NoCall ==
    Call("none", <<>>, <<>>, "none")

Init ==
    /\ t = NoTransformer
    /\ geoid = NewGeoidCalculator
    /\ ctor = NoCtor
    /\ last = NoCall
    /\ ts = [i \in Slots |-> NoTransformer]
    /\ handles = <<>>
    /\ sys = [cs |-> DefaultCS, factory |-> "Default", args |-> <<>>]
    /\ g_transformer = NullTransformer
    /\ val = <<0, 0, 0>>
    /\ held = [th \in Threads |-> NullTransformer]
    /\ temps = 0
    /\ allocs = 0

\* ---------------------------------------------------------------------------
\* Operations
\* ---------------------------------------------------------------------------

\* CoordinateTransformer(cs)
Construct1 ==
    /\ t = NoTransformer
    /\ \E cs \in CoordinateSystems :
          /\ t' = NewTransformer(cs)
          /\ ctor' = Ctor(FALSE, GeoReference(0, 0, 0), FALSE, "null")
    /\ last' = Call("Construct", <<>>, <<>>, "none")
    /\ UNCHANGED geoid
    /\ UNCHANGED aux

\* CoordinateTransformer(cs, geo_ref): geoid_config_ is GeoidConfig::Disabled()
Construct2 ==
    /\ t = NoTransformer
    /\ \E cs \in CoordinateSystems, geo_ref \in GeoReferences, created \in BOOLEAN :
          /\ created => NeedsOGRTransform(cs)
          /\ t' = InitializeWithGeoRef(cs, GeoidConfigDisabled, geo_ref, created, geoid)
          /\ ctor' = Ctor(TRUE, geo_ref, FALSE, geoid.geoid_)
    /\ last' = Call("Construct", <<>>, <<>>, "none")
    /\ UNCHANGED geoid
    /\ UNCHANGED aux

\* CoordinateTransformer(cs, geo_ref, geoid_config)
Construct3 ==
    /\ t = NoTransformer
    /\ \E cs \in CoordinateSystems, geo_ref \in GeoReferences,
          geoid_config \in GeoidConfigs, created \in BOOLEAN :
          /\ created => NeedsOGRTransform(cs)
          /\ t' = InitializeWithGeoRef(cs, geoid_config, geo_ref, created, geoid)
          /\ ctor' = Ctor(TRUE, geo_ref, geoid_config.enabled, geoid.geoid_)
    /\ last' = Call("Construct", <<>>, <<>>, "none")
    /\ UNCHANGED geoid
    /\ UNCHANGED aux

\* ~CoordinateTransformer()
Destroy ==
    /\ t # NoTransformer
    /\ t' = NoTransformer
    /\ ctor' = NoCtor
    /\ last' = Call("Destroy", <<>>, <<>>, "none")
    /\ UNCHANGED geoid
    /\ UNCHANGED aux

\* an EnableGeoidCorrection that replaces the whole configuration by the
\* factory default of the chosen state
EnableGeoidCorrectionByFactory ==
    /\ t # NoTransformer
    /\ \E enabled \in BOOLEAN :
          /\ t' = [t EXCEPT !.geoid_config =
                       IF enabled THEN GeoidConfigEGM96("") ELSE GeoidConfigDisabled]
          /\ last' = Call("EnableGeoidCorrection", enabled, <<>>, "none")
    /\ UNCHANGED <<geoid, ctor>>
    /\ UNCHANGED aux

\* EnableGeoidCorrection(enabled)
EnableGeoidCorrection ==
    /\ t # NoTransformer
    /\ \E enabled \in BOOLEAN :
          /\ t' = [t EXCEPT !.geoid_config.enabled = enabled]
          /\ last' = Call("EnableGeoidCorrection", enabled, <<>>, "none")
    /\ UNCHANGED <<geoid, ctor>>
    /\ UNCHANGED aux

\* init_geoid -> InitializeGlobalGeoidCalculator(model, path)
InitGeoid ==
    /\ \E model \in InitModels, loaded \in BOOLEAN :
          /\ geoid' = Initialize(geoid, model, loaded)
          /\ last' = Call("InitGeoid", model, model = "NONE" \/ loaded, "none")
    /\ UNCHANGED <<t, ctor>>
    /\ UNCHANGED aux

CallToWGS84 ==
    /\ t # NoTransformer
    /\ \E p \in Points : last' = Call("ToWGS84", p, ToWGS84(t, geoid, p), "none")
    /\ UNCHANGED <<t, geoid, ctor>>
    /\ UNCHANGED aux

CallToECEF ==
    /\ t # NoTransformer
    /\ \E p \in Points : last' = Call("ToECEF", p, ToECEF(t, geoid, p), "none")
    /\ UNCHANGED <<t, geoid, ctor>>
    /\ UNCHANGED aux

CallToLocalENU ==
    /\ t # NoTransformer
    /\ \E p \in Points : last' = Call("ToLocalENU", p, ToLocalENU(t, geoid, p), "none")
    /\ UNCHANGED <<t, geoid, ctor>>
    /\ UNCHANGED aux

CallTransformToWGS84 ==
    /\ t # NoTransformer
    /\ \E ps \in Batches :
          last' = Call("TransformToWGS84", ps, TransformToWGS84(t, geoid, ps), "none")
    /\ UNCHANGED <<t, geoid, ctor>>
    /\ UNCHANGED aux

CallTransformToLocalENU ==
    /\ t # NoTransformer
    /\ \E ps \in Batches :
          last' = Call("TransformToLocalENU", ps, TransformToLocalENU(t, geoid, ps), "none")
    /\ UNCHANGED <<t, geoid, ctor>>
    /\ UNCHANGED aux

CallConvertUpAxis ==
    /\ t # NoTransformer
    /\ \E p \in Points, target_axis \in UpAxis :
          last' = Call("ConvertUpAxis", p, ConvertUpAxis(t, p, target_axis), target_axis)
    /\ UNCHANGED <<t, geoid, ctor>>
    /\ UNCHANGED aux

\* a caller converts a point with this transformer and hands the result to a
\* second transformer, whose source up-axis is the target of the first call,
\* to convert it back to the up-axis of this one
CallConvertUpAxisBack ==
    /\ t # NoTransformer
    /\ \E p \in Points, target_axis \in UpAxis :
          /\ last' = Call("ConvertUpAxisBack", p,
                          ConvertUpAxis(NewTransformer(LocalCartesian(target_axis, "RightHanded")),
                                        ConvertUpAxis(t, p, target_axis),
                                        GetUpAxis(t.source_cs)),
                          target_axis)
    /\ UNCHANGED <<t, geoid, ctor>>
    /\ UNCHANGED aux

Next ==
    \/ Construct1
    \/ Construct2
    \/ Construct3
    \/ Destroy
    \/ EnableGeoidCorrection
    \/ InitGeoid
    \/ CallToWGS84
    \/ CallToECEF
    \/ CallToLocalENU
    \/ CallTransformToWGS84
    \/ CallTransformToLocalENU
    \/ CallConvertUpAxis
    \/ CallConvertUpAxisBack

Spec == Init /\ [][Next]_vars

\* ---------------------------------------------------------------------------
\* Properties
\* ---------------------------------------------------------------------------

Live == t # NoTransformer

GeoOps == {"ToWGS84", "ToECEF", "ToLocalENU", "TransformToWGS84", "TransformToLocalENU"}

\* C1: on a transformer built with a geo-reference from a LocalCartesian
\* system, ToLocalENU returns its input point unchanged.
C1_LocalCartesianPassThrough ==
    (/\ last.op = "ToLocalENU"
     /\ ctor.with_geo_ref
     /\ t.source_cs.type = "LocalCartesian")
    => last.out = last.in

\* a Z-up, left-handed LocalCartesian transformer with geoid correction
\* enabled and the geoid service initialized has converted (1, 2, 3)
C1_Witness ==
    /\ last.op = "ToLocalENU"
    /\ ctor.with_geo_ref
    /\ t.source_cs = LocalCartesian("Z_UP", "LeftHanded")
    /\ t.geoid_config.enabled
    /\ IsInitialized(geoid)
    /\ ctor.geo_ref = GeoReference(90, 0, 5)
    /\ last.in = Pt(1)
    /\ last.out = Pt(1)

\* the input of the last call plus the SRSOrigin offset of the ENU system
OffsetInput ==
    <<last.in[1] + t.source_cs.params.offset_x,
      last.in[2] + t.source_cs.params.offset_y,
      last.in[3] + t.source_cs.params.offset_z>>

\* C2: on a geo-referenced ENU transformer ToLocalENU(p) is
\* ecef_to_enu * (enu_to_ecef * (p + offset)), and ToLocalENU((0,0,0)) is
\* exactly the SRSOrigin offset.
C2_EnuReprojection ==
    (/\ last.op = "ToLocalENU"
     /\ ctor.with_geo_ref
     /\ t.source_cs.type = "ENU")
    => /\ last.out = Vec3(MatVec(t.ecef_to_enu,
                                 Vec4(Vec3(MatVec(t.enu_to_ecef, Vec4(OffsetInput))))))
       /\ last.in = <<0, 0, 0>> => last.out = GetSourceOrigin(t.source_cs)

\* the zero vector went through an ENU transformer with a non-zero SRSOrigin
C2_Witness ==
    /\ last.op = "ToLocalENU"
    /\ ctor.with_geo_ref
    /\ t.source_cs.type = "ENU"
    /\ last.in = <<0, 0, 0>>
    /\ last.out = <<-958, -993, 69>>

\* C3: an EPSG/WKT transformer whose projection handle could not be built is
\* constructed with an empty handle, and every geo transformation on it
\* returns its input unchanged.
C3_EmptyHandlePassThrough ==
    (/\ last.op \in GeoOps
     /\ ctor.with_geo_ref
     /\ NeedsOGRTransform(t.source_cs)
     /\ t.ogr_transform = NullHandle)
    => last.out = last.in

\* the part of C3 the code keeps: ToLocalENU and its batch form pass through
C3_EmptyHandleLocalENU ==
    (/\ last.op \in {"ToLocalENU", "TransformToLocalENU"}
     /\ ctor.with_geo_ref
     /\ NeedsOGRTransform(t.source_cs)
     /\ t.ogr_transform = NullHandle)
    => last.out = last.in

\* the geoid service as it was when the transformer was constructed
CtorGeoid ==
    [model_ |-> "NONE", geoid_ |-> ctor.geoid_]

\* the origin InitializeWithGeoRef starts from, before any geoid correction
UncorrectedOrigin ==
    IF t.source_cs.type = "ENU"
    THEN <<t.source_cs.params.origin_lon, t.source_cs.params.origin_lat,
           t.source_cs.params.origin_height>>
    ELSE IF NeedsOGRTransform(t.source_cs) /\ ctor.geo_ref.lon = 0 /\ ctor.geo_ref.lat = 0
    THEN IF t.ogr_transform # NullHandle
         THEN Transform(t.ogr_transform, GetSourceOrigin(t.source_cs))
         ELSE GetSourceOrigin(t.source_cs)
    ELSE <<ctor.geo_ref.lon, ctor.geo_ref.lat, ctor.geo_ref.height>>

\* the input of the last call, projected: p + source origin through the handle
ProjectedInput ==
    LET origin == GetSourceOrigin(t.source_cs)
    IN  Transform(t.ogr_transform,
                  <<last.in[1] + origin[1], last.in[2] + origin[2], last.in[3] + origin[3]>>)

\* h + N(lat, lon) of the loaded grid when applies, else h
HeightUnder(applies, calc, lat, lon, h) ==
    IF applies /\ calc.geoid_ # "null" /\ ~GridLookupThrows(lat, lon)
    THEN h + GridUndulation(calc.geoid_, lat, lon)
    ELSE h

\* the origin height and the heights of ToLocalENU follow a policy:
\* atCtor and atCall say whether the policy corrects at construction and at
\* the last call
FollowsPolicy(atCtor, atCall) ==
    /\ (Live /\ ctor.with_geo_ref)
       => t.geo_origin_height =
             HeightUnder(atCtor, CtorGeoid, UncorrectedOrigin[2], UncorrectedOrigin[1],
                         UncorrectedOrigin[3])
    /\ (/\ last.op = "ToLocalENU"
        /\ ctor.with_geo_ref
        /\ NeedsOGRTransform(t.source_cs)
        /\ t.ogr_transform # NullHandle)
       => last.out =
             Vec3(MatVec(t.ecef_to_enu,
                         Vec4(CartographicToEcef(ProjectedInput[1], ProjectedInput[2],
                                  HeightUnder(atCall, geoid, ProjectedInput[2],
                                              ProjectedInput[1], ProjectedInput[3])))))
    /\ (/\ last.op = "ToLocalENU"
        /\ ctor.with_geo_ref
        /\ t.source_cs.type = "ENU")
       => last.out[3] = last.in[3] + t.source_cs.params.offset_z
    /\ (/\ last.op = "ToLocalENU"
        /\ ctor.with_geo_ref
        /\ t.source_cs.type = "LocalCartesian")
       => last.out[3] = last.in[3]

\* C4 as stated: the correction is applied iff geoid_config.enabled, the
\* geoid service is initialized for the model of geoid_config, and the
\* vertical datum of the source system is Orthometric or Unknown.
C4_PolicyForRequestedModel ==
    FollowsPolicy(
        Live /\ ctor.enabled /\ ctor.geoid_ = GeoidName(t.geoid_config.model)
             /\ GetVerticalDatum(t.source_cs) \in {"Orthometric", "Unknown"},
        Live /\ t.geoid_config.enabled /\ geoid.geoid_ = GeoidName(t.geoid_config.model)
             /\ GetVerticalDatum(t.source_cs) \in {"Orthometric", "Unknown"})

\* C4 amended: the correction is applied iff geoid_config.enabled, the geoid
\* service is initialized (with whatever model), and the source system is an
\* EPSG or WKT system whose vertical datum is Orthometric or Unknown; in every
\* other case the height passes through.
C4_GeoidPolicy ==
    FollowsPolicy(
        Live /\ ctor.enabled /\ ctor.geoid_ # "null"
             /\ NeedsOGRTransform(t.source_cs)
             /\ GetVerticalDatum(t.source_cs) \in {"Orthometric", "Unknown"},
        Live /\ t.geoid_config.enabled /\ geoid.geoid_ # "null"
             /\ NeedsOGRTransform(t.source_cs)
             /\ GetVerticalDatum(t.source_cs) \in {"Orthometric", "Unknown"})

\* an orthometric EPSG transformer configured for EGM96 has corrected both
\* its origin and a point with the EGM2008 grid the service had loaded
C4_Witness ==
    /\ last.op = "ToLocalENU"
    /\ t.source_cs.type = "EPSG"
    /\ GetVerticalDatum(t.source_cs) = "Orthometric"
    /\ t.ogr_transform # NullHandle
    /\ ctor.enabled
    /\ t.geoid_config.enabled
    /\ t.geoid_config.model = "EGM96"
    /\ ctor.geoid_ = "egm2008-5"
    /\ geoid.geoid_ = "egm2008-5"
    /\ t.geo_origin_height # UncorrectedOrigin[3]
    /\ ~GridLookupThrows(ProjectedInput[2], ProjectedInput[1])
    /\ last.in = Pt(-1)

\* the geographic origin the transformer holds
GeoOrigin ==
    <<t.geo_origin_lon, t.geo_origin_lat, t.geo_origin_height>>

\* whether the geoid policy corrected at construction
CorrectsAtCtor ==
    /\ ctor.enabled
    /\ ctor.geoid_ # "null"
    /\ NeedsOGRTransform(t.source_cs)
    /\ GetVerticalDatum(t.source_cs) \in {"Orthometric", "Unknown"}

\* C5: for an EPSG or WKT system built with a geo-reference, a geo_ref with
\* any of lon, lat, height different from 0 gives the geo origin its lon and
\* lat verbatim and the variant's origin is not projected; only an all-zero
\* geo_ref makes the geo origin the projection of (origin_x, origin_y,
\* origin_z) through the handle; in both cases the origin height then
\* receives the geoid correction of the policy.
C5_NonZeroGeoRefVerbatim ==
    (/\ Live
     /\ ctor.with_geo_ref
     /\ NeedsOGRTransform(t.source_cs)
     /\ t.ogr_transform # NullHandle)
    => LET projected == Transform(t.ogr_transform, GetSourceOrigin(t.source_cs))
       IN  IF ctor.geo_ref.lon # 0 \/ ctor.geo_ref.lat # 0 \/ ctor.geo_ref.height # 0
           THEN GeoOrigin = <<ctor.geo_ref.lon, ctor.geo_ref.lat,
                              HeightUnder(CorrectsAtCtor, CtorGeoid, ctor.geo_ref.lat,
                                          ctor.geo_ref.lon, ctor.geo_ref.height)>>
           ELSE GeoOrigin = <<projected[1], projected[2],
                              HeightUnder(CorrectsAtCtor, CtorGeoid, projected[2],
                                          projected[1], projected[3])>>

\* C6: a transformer built with a geo-reference from an ENU system has the
\* built-in (origin_lon, origin_lat, origin_height) as geo origin whatever
\* geo_ref was passed; one built from a LocalCartesian system has the
\* caller's geo_ref verbatim; neither origin height is geoid-corrected.
C6_OriginOfNonProjected ==
    (Live /\ ctor.with_geo_ref)
    => /\ t.source_cs.type = "ENU"
          => GeoOrigin = <<t.source_cs.params.origin_lon, t.source_cs.params.origin_lat,
                           t.source_cs.params.origin_height>>
       /\ t.source_cs.type = "LocalCartesian"
          => GeoOrigin = <<ctor.geo_ref.lon, ctor.geo_ref.lat, ctor.geo_ref.height>>

\* an ENU transformer was built with a different, non-zero geo_ref, geoid
\* correction enabled and the geoid service initialized
C6_Witness ==
    /\ Live
    /\ ctor.with_geo_ref
    /\ t.source_cs.type = "ENU"
    /\ t.source_cs.params.origin_lat = 90
    /\ ctor.geo_ref = GeoReference(90, 0, 5)
    /\ ctor.enabled
    /\ ctor.geoid_ = "egm2008-5"
    /\ GeoOrigin = <<0, 90, 0>>

\* C7: ConvertUpAxis maps (x, y, z) to (x, z, -y) on a Z_UP source with
\* target Y_UP, and to (x, -z, y) on a Y_UP source with target Z_UP.
C7_AxisMaps ==
    last.op = "ConvertUpAxis"
    => /\ (GetUpAxis(t.source_cs) = "Z_UP" /\ last.target = "Y_UP")
          => last.out = <<last.in[1], last.in[3], 0 - last.in[2]>>
       /\ (GetUpAxis(t.source_cs) = "Y_UP" /\ last.target = "Z_UP")
          => last.out = <<last.in[1], 0 - last.in[3], last.in[2]>>

\* C8: converting a point to the other up-axis and converting the result
\* back with a transformer of that source up-axis returns the point, in
\* both orders.
C8_UpAxisRoundTrip ==
    last.op = "ConvertUpAxisBack" => last.out = last.in

\* (1, 2, 3) went from a Y_UP source to Z_UP and back
C8_Witness ==
    /\ last.op = "ConvertUpAxisBack"
    /\ GetUpAxis(t.source_cs) = "Y_UP"
    /\ last.target = "Z_UP"
    /\ ConvertUpAxis(t, Pt(1), "Z_UP") # Pt(1)
    /\ last.in = Pt(1)
    /\ last.out = Pt(1)

\* C9: ConvertUpAxis with the source system's own up-axis as target returns
\* the point, in every mode; with target Y_UP that is every source that is
\* not LocalCartesian.
C9_SameAxisIdentity ==
    last.op = "ConvertUpAxis"
    => /\ last.target = GetUpAxis(t.source_cs) => last.out = last.in
       /\ (t.source_cs.type # "LocalCartesian" /\ last.target = "Y_UP")
          => last.out = last.in

\* a WKT transformer without geo-reference converted (1, 2, 3) to Y_UP
C9_Witness ==
    /\ last.op = "ConvertUpAxis"
    /\ t.mode = "None"
    /\ t.source_cs.type = "WKT"
    /\ last.target = "Y_UP"
    /\ last.in = Pt(1)
    /\ last.out = Pt(1)

C11_EnuBuiltinGeoReference ==
    (/\ Live
     /\ ~ctor.with_geo_ref
     /\ t.source_cs.type = "ENU")
    => /\ HasGeoReference(t)
       /\ GeoOrigin = <<t.source_cs.params.origin_lon, t.source_cs.params.origin_lat,
                        t.source_cs.params.origin_height>>

\* ---------------------------------------------------------------------------
\* Ownership study: two transformer objects, their moves, and the projection
\* handles OGRCreateCoordinateTransformation has handed out
\* ---------------------------------------------------------------------------

\* at most this many projection handles are created in one run
MaxHandles == 2

\* the coordinate systems, geo-references and geoid configurations of the
\* ownership study
OwnSystems ==
    {LocalCartesian("Z_UP", "RightHanded"),
     ENU(0, 90, 0, -958, -993, 69),
     EPSG(4547, 90, 0, 3, "Orthometric"),
     WKT("PROJCS", 0, 0, 0, "Unknown")}

OwnGeoReferences ==
    {GeoReference(0, 0, 0), GeoReference(90, 0, 5)}

OwnGeoidConfigs ==
    {GeoidConfigDisabled, GeoidConfigEGM2008("")}

\* the pointer OGRCreateCoordinateTransformation returned: the id-th handle
\* created in this run
Stamp(handle, id) ==
    IF handle = NullHandle THEN NullHandle
    ELSE [crs |-> handle.crs, key |-> handle.key, id |-> id]

\* OGRCTDeleter on the handle a unique_ptr gives up: DestroyCT unless null
Release(hs, handle) ==
    IF handle = NullHandle THEN hs
    ELSE [hs EXCEPT ![handle.id] = @ + 1]

\* a move that forgets ecef_to_enu_, which keeps its default initializer
MovedIntoDefaultInverse(other) ==
    [source_cs          |-> other.source_cs,
     mode               |-> other.mode,
     geo_origin_lon     |-> other.geo_origin_lon,
     geo_origin_lat     |-> other.geo_origin_lat,
     geo_origin_height  |-> other.geo_origin_height,
     enu_to_ecef        |-> other.enu_to_ecef,
     ecef_to_enu        |-> Identity4,
     axis_transform     |-> other.axis_transform,
     ogr_transform      |-> other.ogr_transform,
     geoid_config       |-> other.geoid_config]

\* a move that forgets geoid_config_, which keeps its default initializer
MovedIntoDefaultGeoidConfig(other) ==
    [source_cs          |-> other.source_cs,
     mode               |-> other.mode,
     geo_origin_lon     |-> other.geo_origin_lon,
     geo_origin_lat     |-> other.geo_origin_lat,
     geo_origin_height  |-> other.geo_origin_height,
     enu_to_ecef        |-> other.enu_to_ecef,
     ecef_to_enu        |-> other.ecef_to_enu,
     axis_transform     |-> other.axis_transform,
     ogr_transform      |-> other.ogr_transform,
     geoid_config       |-> [enabled |-> FALSE, model |-> "EGM96", data_path |-> ""]]

\* the members of the object a move constructs or assigns into
MovedInto(other) ==
    [source_cs          |-> other.source_cs,
     mode               |-> other.mode,
     geo_origin_lon     |-> other.geo_origin_lon,
     geo_origin_lat     |-> other.geo_origin_lat,
     geo_origin_height  |-> other.geo_origin_height,
     enu_to_ecef        |-> other.enu_to_ecef,
     ecef_to_enu        |-> other.ecef_to_enu,
     axis_transform     |-> other.axis_transform,
     ogr_transform      |-> other.ogr_transform,
     geoid_config       |-> other.geoid_config]

\* a move that copies the pointer and leaves it in the source as well
MovedFromKeepingHandle(other, wkt_kept) ==
    IF other.source_cs.type = "WKT" /\ ~wkt_kept
    THEN [other EXCEPT !.source_cs.params.wkt = ""]
    ELSE other

\* the members of the source after the move: the unique_ptr is empty, the
\* scalar members and matrices are as they were, and the std::string of a
\* WKT system is valid but unspecified (emptied, or kept)
MovedFrom(other, wkt_kept) ==
    IF other.source_cs.type = "WKT" /\ ~wkt_kept
    THEN [other EXCEPT !.ogr_transform = NullHandle, !.source_cs.params.wkt = ""]
    ELSE [other EXCEPT !.ogr_transform = NullHandle]

\* CoordinateTransformer(cs) into an empty slot
OwnConstruct1 ==
    /\ \E i \in Slots, cs \in OwnSystems :
          /\ ts[i] = NoTransformer
          /\ ts' = [ts EXCEPT ![i] = NewTransformer(cs)]
    /\ UNCHANGED <<t, geoid, ctor, last, handles, sys>>
    /\ UNCHANGED global

\* CoordinateTransformer(cs, geo_ref) into an empty slot
OwnConstruct2 ==
    /\ \E i \in Slots, cs \in OwnSystems, geo_ref \in OwnGeoReferences, created \in BOOLEAN :
          /\ ts[i] = NoTransformer
          /\ created => (NeedsOGRTransform(cs) /\ Len(handles) < MaxHandles)
          /\ LET made == InitializeWithGeoRef(cs, GeoidConfigDisabled, geo_ref, created, geoid)
             IN  /\ ts' = [ts EXCEPT ![i] =
                              [made EXCEPT !.ogr_transform = Stamp(@, Len(handles) + 1)]]
                 /\ handles' = IF created THEN Append(handles, 0) ELSE handles
    /\ UNCHANGED <<t, geoid, ctor, last, sys>>
    /\ UNCHANGED global

\* CoordinateTransformer(cs, geo_ref, geoid_config) into an empty slot
OwnConstruct3 ==
    /\ \E i \in Slots, cs \in OwnSystems, geo_ref \in OwnGeoReferences,
          geoid_config \in OwnGeoidConfigs, created \in BOOLEAN :
          /\ ts[i] = NoTransformer
          /\ created => (NeedsOGRTransform(cs) /\ Len(handles) < MaxHandles)
          /\ LET made == InitializeWithGeoRef(cs, geoid_config, geo_ref, created, geoid)
             IN  /\ ts' = [ts EXCEPT ![i] =
                              [made EXCEPT !.ogr_transform = Stamp(@, Len(handles) + 1)]]
                 /\ handles' = IF created THEN Append(handles, 0) ELSE handles
    /\ UNCHANGED <<t, geoid, ctor, last, sys>>
    /\ UNCHANGED global

\* ~CoordinateTransformer(): the unique_ptr member releases its handle
OwnDestroy ==
    /\ \E i \in Slots :
          /\ ts[i] # NoTransformer
          /\ handles' = Release(handles, ts[i].ogr_transform)
          /\ ts' = [ts EXCEPT ![i] = NoTransformer]
    /\ UNCHANGED <<t, geoid, ctor, last, sys>>
    /\ UNCHANGED global

\* EnableGeoidCorrection(enabled) on one of the objects
OwnEnableGeoidCorrection ==
    /\ \E i \in Slots, enabled \in BOOLEAN :
          /\ ts[i] # NoTransformer
          /\ ts' = [ts EXCEPT ![i].geoid_config.enabled = enabled]
    /\ UNCHANGED <<t, geoid, ctor, last, handles, sys>>
    /\ UNCHANGED global

\* init_geoid between constructions
OwnInitGeoid ==
    /\ \E model \in InitModels, loaded \in BOOLEAN :
          geoid' = Initialize(geoid, model, loaded)
    /\ UNCHANGED <<t, ctor, last, ts, handles, sys>>
    /\ UNCHANGED global

\* CoordinateTransformer(CoordinateTransformer&& other): slot i is the new
\* object, slot j is other
MoveConstruct ==
    /\ \E i \in Slots, j \in Slots, wkt_kept \in BOOLEAN :
          /\ ts[i] = NoTransformer
          /\ ts[j] # NoTransformer
          /\ wkt_kept => ts[j].source_cs.type = "WKT"
          /\ ts' = [ts EXCEPT ![i] = MovedInto(ts[j]), ![j] = MovedFrom(ts[j], wkt_kept)]
    /\ UNCHANGED <<t, geoid, ctor, last, handles, sys>>
    /\ UNCHANGED global

\* operator=(CoordinateTransformer&& other): slot i is *this, slot j is
\* other; this == &other changes nothing; otherwise the unique_ptr releases
\* the handle it held before it takes the one of other
MoveAssign ==
    /\ \E i \in Slots, j \in Slots, wkt_kept \in BOOLEAN :
          /\ ts[i] # NoTransformer
          /\ ts[j] # NoTransformer
          /\ wkt_kept => (i # j /\ ts[j].source_cs.type = "WKT")
          /\ IF i = j
             THEN UNCHANGED <<ts, handles>>
             ELSE /\ handles' = Release(handles, ts[i].ogr_transform)
                  /\ ts' = [ts EXCEPT ![i] = MovedInto(ts[j]),
                                      ![j] = MovedFrom(ts[j], wkt_kept)]
    /\ UNCHANGED <<t, geoid, ctor, last, sys>>
    /\ UNCHANGED global

NextOwn ==
    \/ OwnConstruct1
    \/ OwnConstruct2
    \/ OwnConstruct3
    \/ OwnDestroy
    \/ OwnEnableGeoidCorrection
    \/ OwnInitGeoid
    \/ MoveConstruct
    \/ MoveAssign

SpecOwn == Init /\ [][NextOwn]_vars

\* the unit vectors of homogeneous 4-space
Units ==
    {<<1, 0, 0, 0>>, <<0, 1, 0, 0>>, <<0, 0, 1, 0>>, <<0, 0, 0, 1>>}

\* a * b is the identity matrix
IsInverseOf(a, b) ==
    \A e \in Units : MatVec(a, MatVec(b, e)) = e

\* C12: in every state of every transformer object, after any constructor,
\* any EnableGeoidCorrection, any move construction or move assignment (the
\* moved-to and the moved-from object alike), ecef_to_enu is the inverse of
\* enu_to_ecef, and on a geo-referenced transformer enu_to_ecef is
\* CalcEnuToEcefMatrix of the geo origin it holds.
C12_MatricesConsistent ==
    \A i \in Slots :
        ts[i] # NoTransformer
        => /\ IsInverseOf(ts[i].ecef_to_enu, ts[i].enu_to_ecef)
           /\ IsInverseOf(ts[i].enu_to_ecef, ts[i].ecef_to_enu)
           /\ HasGeoReference(ts[i])
              => ts[i].enu_to_ecef =
                    CalcEnuToEcefMatrix(ts[i].geo_origin_lon, ts[i].geo_origin_lat,
                                        ts[i].geo_origin_height)

\* slot 2 holds a geoid-corrected EPSG transformer that was moved out of
\* slot 1 and has had its geoid correction switched off since; the
\* moved-from object in slot 1 still has the matrices
C12_Witness ==
    /\ ts[1] # NoTransformer
    /\ ts[2] # NoTransformer
    /\ ts[2].source_cs.type = "EPSG"
    /\ ts[2].ogr_transform # NullHandle
    /\ ts[1].ogr_transform = NullHandle
    /\ ts[1].source_cs = ts[2].source_cs
    /\ ts[1].enu_to_ecef = ts[2].enu_to_ecef
    /\ ts[2].enu_to_ecef # Identity4
    /\ ts[2].geo_origin_height = 3 + GridUndulation("egm2008-5", 0, 8100)
    /\ ts[1].geoid_config.enabled
    /\ ~ts[2].geoid_config.enabled

\* the slots whose transformer holds the id-th handle
Owners(id) ==
    {i \in Slots : /\ ts[i] # NoTransformer
                   /\ ts[i].ogr_transform # NullHandle
                   /\ ts[i].ogr_transform.id = id}

\* C16: across constructions, move constructions, move assignments and
\* destructions, every projection handle that was created is owned by at
\* most one transformer, is never released twice, is not released while a
\* live transformer owns it, and is released once its owner has been
\* destroyed or move-assigned over.
C16_HandleOwnership ==
    \A id \in 1..Len(handles) :
        /\ Cardinality(Owners(id)) <= 1
        /\ handles[id] <= 1
        /\ Owners(id) # {} => handles[id] = 0
        /\ Owners(id) = {} => handles[id] = 1

\* two handles were created; the first was released when its owner was
\* move-assigned over, the second now belongs to that object in slot 1 and
\* the moved-from object in slot 2 is still alive
C16_Witness ==
    /\ Len(handles) = 2
    /\ handles = <<1, 0>>
    /\ Owners(2) = {1}
    /\ ts[2] # NoTransformer
    /\ NeedsOGRTransform(ts[2].source_cs)
    /\ ts[2].ogr_transform = NullHandle
    /\ ts[2].enu_to_ecef = ts[1].enu_to_ecef

\* C13: on every geo-referenced transformer, of every variant and with
\* every geoid configuration, ToLocalENU(p) = ecef_to_enu * ToECEF(p).
C13_LocalENUFromECEF ==
    (/\ last.op = "ToLocalENU"
     /\ HasGeoReference(t))
    => last.out = Vec3(MatVec(t.ecef_to_enu, Vec4(ToECEF(t, geoid, last.in))))

\* the part of C13 the code keeps: ENU systems, and EPSG/WKT systems with a
\* handle whose heights the geoid policy leaves alone
C13_LocalENUFromECEFUncorrected ==
    (/\ last.op = "ToLocalENU"
     /\ HasGeoReference(t)
     /\ \/ t.source_cs.type = "ENU"
        \/ /\ NeedsOGRTransform(t.source_cs)
           /\ t.ogr_transform # NullHandle
           /\ ~ShouldApplyGeoidCorrection(t.source_cs, t.geoid_config, geoid))
    => last.out = Vec3(MatVec(t.ecef_to_enu, Vec4(ToECEF(t, geoid, last.in))))

\* the values the four conversions return for every point, as a function
\* of a transformer and the geoid service
ResultsOf(tr, calc) ==
    [p \in Points |->
        [ToLocalENU |-> ToLocalENU(tr, calc, p),
         ToECEF     |-> ToECEF(tr, calc, p),
         ToWGS84    |-> ToWGS84(tr, calc, p),
         Y_UP       |-> ConvertUpAxis(tr, p, "Y_UP"),
         Z_UP       |-> ConvertUpAxis(tr, p, "Z_UP")]]

\* a step during the life of one transformer that is not a call of
\* EnableGeoidCorrection on it
KeepsTransformer ==
    /\ t # NoTransformer
    /\ t' # NoTransformer
    /\ last'.op \notin {"Construct", "Destroy", "EnableGeoidCorrection"}

ReadsGeoidService(tr) ==
    /\ HasGeoReference(tr)
    /\ NeedsOGRTransform(tr.source_cs)
    /\ tr.ogr_transform # NullHandle
    /\ tr.geoid_config.enabled
    /\ GetVerticalDatum(tr.source_cs) \in {"Orthometric", "Unknown"}

C15_OnlyEnableMutates ==
    [][(t # NoTransformer /\ t' # NoTransformer /\ last'.op # "Construct")
       => IF last'.op = "EnableGeoidCorrection"
          THEN /\ t'.geoid_config.enabled = last'.in
               /\ [t' EXCEPT !.geoid_config.enabled = t.geoid_config.enabled] = t
          ELSE t' = t]_vars

\* geoid correction was switched off on a WKT transformer built with the
\* EGM2008 configuration, a handle and a corrected origin
C15_Witness ==
    /\ last.op = "EnableGeoidCorrection"
    /\ last.in = FALSE
    /\ ctor.enabled
    /\ ~t.geoid_config.enabled
    /\ t.geoid_config.model = "EGM2008"
    /\ t.source_cs.type = "WKT"
    /\ t.ogr_transform # NullHandle
    /\ t.geo_origin_height # UncorrectedOrigin[3]

\* C18 as stated: on every geo-referenced ENU transformer, whatever its
\* SRSOrigin offset, ToWGS84 returns (geo_origin_lon, geo_origin_lat,
\* geo_origin_height + input.z).
C18_EnuHeightFromInput ==
    (/\ last.op = "ToWGS84"
     /\ HasGeoReference(t)
     /\ t.source_cs.type = "ENU")
    => last.out = <<t.geo_origin_lon, t.geo_origin_lat, t.geo_origin_height + last.in[3]>>

\* C18 amended: on every geo-referenced ENU transformer ToWGS84 returns
\* (geo_origin_lon, geo_origin_lat, geo_origin_height + input.z + offset_z),
\* the SRSOrigin offset being added to the point first.
C18_EnuHeightWithOffset ==
    (/\ last.op = "ToWGS84"
     /\ HasGeoReference(t)
     /\ t.source_cs.type = "ENU")
    => last.out = <<t.geo_origin_lon, t.geo_origin_lat,
                    t.geo_origin_height + last.in[3] + t.source_cs.params.offset_z>>

\* (1, 2, 3) went through ToWGS84 on the ENU transformer whose SRSOrigin
\* offset has z = 69
C18_Witness ==
    /\ last.op = "ToWGS84"
    /\ HasGeoReference(t)
    /\ t.source_cs.type = "ENU"
    /\ t.source_cs.params.offset_z = 69
    /\ last.in = Pt(1)
    /\ last.out = <<0, 90, 72>>

\* ---------------------------------------------------------------------------
\* Geoid study: the conversions of the GeoidCalculator on their own
\* ---------------------------------------------------------------------------

\* a conversion that adds the undulation in both directions
ConvertEllipsoidalAddingUndulation(calc, lat, lon, ellipsoidalHeight) ==
    IF GetGeoidHeight(calc, lat, lon).has
    THEN ellipsoidalHeight + GetGeoidHeight(calc, lat, lon).value
    ELSE ellipsoidalHeight

ConvertEllipsoidalToOrthometric(calc, lat, lon, ellipsoidalHeight) ==
    IF GetGeoidHeight(calc, lat, lon).has
    THEN ellipsoidalHeight - GetGeoidHeight(calc, lat, lon).value
    ELSE ellipsoidalHeight

\* the latitudes, longitudes and heights the conversions are called with
GeoidLats == {-90, 0, 90}

GeoidLons == {0, 90, 180, 270}

GeoidHeights == {-3, 0, 5}

\* GeoidCalculator::Initialize with any model
GeoidInitialize ==
    /\ \E model \in GeoidModel, loaded \in BOOLEAN :
          /\ geoid' = Initialize(geoid, model, loaded)
          /\ last' = Call("Initialize", model, model = "NONE" \/ loaded, "none")
    /\ UNCHANGED <<t, ctor, ts, handles, sys>>
    /\ UNCHANGED global

CallGetGeoidHeight ==
    /\ \E lat \in GeoidLats, lon \in GeoidLons :
          last' = Call("GetGeoidHeight", <<lat, lon>>, GetGeoidHeight(geoid, lat, lon), "none")
    /\ UNCHANGED <<t, geoid, ctor, ts, handles, sys>>
    /\ UNCHANGED global

CallConvertOrthometricToEllipsoidal ==
    /\ \E lat \in GeoidLats, lon \in GeoidLons, h \in GeoidHeights :
          last' = Call("ConvertOrthometricToEllipsoidal", <<lat, lon, h>>,
                       ConvertOrthometricToEllipsoidal(geoid, lat, lon, h), "none")
    /\ UNCHANGED <<t, geoid, ctor, ts, handles, sys>>
    /\ UNCHANGED global

CallConvertEllipsoidalToOrthometric ==
    /\ \E lat \in GeoidLats, lon \in GeoidLons, h \in GeoidHeights :
          last' = Call("ConvertEllipsoidalToOrthometric", <<lat, lon, h>>,
                       ConvertEllipsoidalToOrthometric(geoid, lat, lon, h), "none")
    /\ UNCHANGED <<t, geoid, ctor, ts, handles, sys>>
    /\ UNCHANGED global


\* the geoid lookup at the position of the last call succeeds
LookupSucceeds ==
    /\ IsInitialized(geoid)
    /\ ~GridLookupThrows(last.in[1], last.in[2])

\* the undulation of the loaded grid at the position of the last call
LastUndulation ==
    GridUndulation(geoid.geoid_, last.in[1], last.in[2])

\* C17: when the geoid lookup at (lat, lon) succeeds with undulation N,
\* orthometric-to-ellipsoidal returns h + N and ellipsoidal-to-orthometric
\* returns h - N; when the service returns nothing (not initialized, or the
\* lookup fails) both return h unchanged.
C17_GeoidConversions ==
    /\ last.op = "GetGeoidHeight"
       => /\ last.out.has = LookupSucceeds
          /\ last.out.has => last.out.value = LastUndulation
    /\ last.op = "ConvertOrthometricToEllipsoidal"
       => last.out = IF LookupSucceeds THEN last.in[3] + LastUndulation ELSE last.in[3]
    /\ last.op = "ConvertEllipsoidalToOrthometric"
       => last.out = IF LookupSucceeds THEN last.in[3] - LastUndulation ELSE last.in[3]

\* an ellipsoidal height of 5 was converted at the pole with the EGM96 grid
C17_Witness ==
    /\ last.op = "ConvertEllipsoidalToOrthometric"
    /\ geoid.geoid_ = "egm96-5"
    /\ last.in = <<90, 180, 5>>
    /\ LookupSucceeds
    /\ last.out = 5 - 15

\* ---------------------------------------------------------------------------
\* Value-model study: one CoordinateSystem value, its factories, its
\* accessors and SetVerticalDatum
\* ---------------------------------------------------------------------------

\* std::nullopt and a present std::optional
Nullopt == [has |-> FALSE]

Optional(v) == [has |-> TRUE, value |-> v]

IsValid(cs) ==
    cs.type # "Unknown"

HasBuiltinGeoReference(cs) ==
    cs.type = "ENU"

\* ENUParams::GetGeoReference through GetBuiltinGeoReference
GetBuiltinGeoReference(cs) ==
    IF cs.type = "ENU"
    THEN Optional([lon |-> cs.params.origin_lon, lat |-> cs.params.origin_lat,
                   height |-> cs.params.origin_height, datum |-> "Ellipsoidal"])
    ELSE Nullopt

GetENUParams(cs) ==
    IF cs.type = "ENU" THEN Optional(cs.params) ELSE Nullopt

GetLocalCartesianParams(cs) ==
    IF cs.type = "LocalCartesian" THEN Optional(cs.params) ELSE Nullopt

\* an accessor that answers for every projected system
GetEPSGCodeOfProjected(cs) ==
    IF NeedsOGRTransform(cs)
    THEN Optional(IF cs.type = "EPSG" THEN cs.params.code ELSE 0)
    ELSE Nullopt

GetEPSGCode(cs) ==
    IF cs.type = "EPSG" THEN Optional(cs.params.code) ELSE Nullopt

GetWKTString(cs) ==
    IF cs.type = "WKT" THEN Optional(cs.params.wkt) ELSE Nullopt

\* a SetVerticalDatum that only knows the EPSG variant
SetVerticalDatumOfEpsgOnly(cs, datum) ==
    IF cs.type = "EPSG"
    THEN [cs EXCEPT !.params.vertical_datum = datum]
    ELSE cs

\* the value after SetVerticalDatum(datum)
SetVerticalDatum(cs, datum) ==
    IF cs.type \in {"EPSG", "WKT"}
    THEN [cs EXCEPT !.params.vertical_datum = datum]
    ELSE cs

\* the arguments the factories are called with
Origins == {<<0, 0, 0>>, <<90, 0, 3>>}

Offsets == {<<0, 0, 0>>, <<-958, -993, 69>>}

GeoOrigins == {<<0, 0, 0>>, <<90, 0, 7>>, <<0, 90, 0>>}

EpsgCodes == {4326, 4547}

WktStrings == {"", "PROJCS"}

\* a CoordinateSystem value with the factory call that made it
Made(cs, factory, args) ==
    [cs |-> cs, factory |-> factory, args |-> args]

\* CoordinateSystem cs;
MakeDefault ==
    /\ sys' = Made(DefaultCS, "Default", <<>>)
    /\ last' = Call("Default", <<>>, <<>>, "none")
    /\ UNCHANGED <<t, geoid, ctor, ts, handles>>
    /\ UNCHANGED global

MakeLocalCartesian ==
    /\ \E up_axis \in UpAxis, handedness \in Handedness :
          sys' = Made(LocalCartesian(up_axis, handedness), "LocalCartesian",
                      <<up_axis, handedness>>)
    /\ last' = Call("LocalCartesian", <<>>, <<>>, "none")
    /\ UNCHANGED <<t, geoid, ctor, ts, handles>>
    /\ UNCHANGED global

MakeENU ==
    /\ \E o \in GeoOrigins, f \in Offsets :
          sys' = Made(ENU(o[1], o[2], o[3], f[1], f[2], f[3]), "ENU",
                      <<o[1], o[2], o[3], f[1], f[2], f[3]>>)
    /\ last' = Call("ENU", <<>>, <<>>, "none")
    /\ UNCHANGED <<t, geoid, ctor, ts, handles>>
    /\ UNCHANGED global

MakeEPSG ==
    /\ \E code \in EpsgCodes, o \in Origins, d \in VerticalDatum :
          sys' = Made(EPSG(code, o[1], o[2], o[3], d), "EPSG", <<code, o[1], o[2], o[3], d>>)
    /\ last' = Call("EPSG", <<>>, <<>>, "none")
    /\ UNCHANGED <<t, geoid, ctor, ts, handles>>
    /\ UNCHANGED global

MakeWKT ==
    /\ \E wkt \in WktStrings, o \in Origins, d \in VerticalDatum :
          sys' = Made(WKT(wkt, o[1], o[2], o[3], d), "WKT", <<wkt, o[1], o[2], o[3], d>>)
    /\ last' = Call("WKT", <<>>, <<>>, "none")
    /\ UNCHANGED <<t, geoid, ctor, ts, handles>>
    /\ UNCHANGED global

CallSetVerticalDatum ==
    /\ \E datum \in VerticalDatum :
          /\ sys' = [sys EXCEPT !.cs = SetVerticalDatum(sys.cs, datum)]
          /\ last' = Call("SetVerticalDatum", datum, <<>>, "none")
    /\ UNCHANGED <<t, geoid, ctor, ts, handles>>
    /\ UNCHANGED global

NextCS ==
    \/ MakeDefault
    \/ MakeLocalCartesian
    \/ MakeENU
    \/ MakeEPSG
    \/ MakeWKT
    \/ CallSetVerticalDatum

SpecCS == Init /\ [][NextCS]_vars

\* C19: in every state of a CoordinateSystem (default construction or any
\* factory, then any SetVerticalDatum calls) the predicates and optional
\* accessors agree with the variant: IsValid iff the value was made by a
\* factory; NeedsOGRTransform iff it is EPSG or WKT; HasBuiltinGeoReference
\* iff it is ENU iff GetBuiltinGeoReference is present; GetENUParams,
\* GetLocalCartesianParams, GetEPSGCode and GetWKTString are present iff the
\* value is of their own variant, and carry the factory's arguments.
C19_AccessorsAgreeWithVariant ==
    LET cs == sys.cs
        a  == sys.args
    IN  /\ cs.type = (IF sys.factory = "Default" THEN "Unknown" ELSE sys.factory)
        /\ IsValid(cs) <=> sys.factory # "Default"
        /\ NeedsOGRTransform(cs) <=> sys.factory \in {"EPSG", "WKT"}
        /\ HasBuiltinGeoReference(cs) <=> sys.factory = "ENU"
        /\ GetBuiltinGeoReference(cs).has <=> sys.factory = "ENU"
        /\ GetENUParams(cs).has <=> sys.factory = "ENU"
        /\ GetLocalCartesianParams(cs).has <=> sys.factory = "LocalCartesian"
        /\ GetEPSGCode(cs).has <=> sys.factory = "EPSG"
        /\ GetWKTString(cs).has <=> sys.factory = "WKT"
        /\ sys.factory = "ENU"
           => /\ GetENUParams(cs).value =
                    [origin_lon |-> a[1], origin_lat |-> a[2], origin_height |-> a[3],
                     offset_x |-> a[4], offset_y |-> a[5], offset_z |-> a[6]]
              /\ GetBuiltinGeoReference(cs).value =
                    [lon |-> a[1], lat |-> a[2], height |-> a[3], datum |-> "Ellipsoidal"]
        /\ sys.factory = "LocalCartesian"
           => GetLocalCartesianParams(cs).value = [up_axis |-> a[1], handedness |-> a[2]]
        /\ sys.factory = "EPSG" => GetEPSGCode(cs).value = a[1]
        /\ sys.factory = "WKT" => GetWKTString(cs).value = a[1]

\* a WKT system made with datum Unknown has been set to Orthometric
C19_Witness ==
    /\ last.op = "SetVerticalDatum"
    /\ sys.factory = "WKT"
    /\ sys.args = <<"PROJCS", 90, 0, 3, "Unknown">>
    /\ GetVerticalDatum(sys.cs) = "Orthometric"
    /\ GetWKTString(sys.cs) = Optional("PROJCS")
    /\ ~GetEPSGCode(sys.cs).has

\* C20: GetSourceOrigin returns the SRSOrigin offset (offset_x, offset_y,
\* offset_z) for ENU, not the geographic origin; (origin_x, origin_y,
\* origin_z) as given to the factory for EPSG and WKT; (0, 0, 0) for
\* LocalCartesian and Unknown.
C20_SourceOriginByVariant ==
    LET a == sys.args
    IN  GetSourceOrigin(sys.cs) =
            CASE sys.factory = "ENU"  -> <<a[4], a[5], a[6]>>
              [] sys.factory = "EPSG" -> <<a[2], a[3], a[4]>>
              [] sys.factory = "WKT"  -> <<a[2], a[3], a[4]>>
              [] OTHER                -> <<0, 0, 0>>

\* an ENU system whose geographic origin and SRSOrigin offset differ
C20_Witness ==
    /\ last.op = "ENU"
    /\ sys.factory = "ENU"
    /\ sys.args = <<90, 0, 7, -958, -993, 69>>
    /\ GetSourceOrigin(sys.cs) = <<-958, -993, 69>>

\* C21: on an EPSG or WKT system GetVerticalDatum returns the value most
\* recently given to SetVerticalDatum, or the factory argument if none was
\* set; on an ENU or LocalCartesian system it always returns Ellipsoidal;
\* SetVerticalDatum never changes the type, the origin, the EPSG code or
\* the WKT string.
C21_VerticalDatum ==
    LET cs == sys.cs
        a  == sys.args
    IN  /\ sys.factory \in {"EPSG", "WKT"}
           => /\ GetVerticalDatum(cs) =
                    (IF last.op = "SetVerticalDatum" THEN last.in ELSE a[5])
              /\ cs.type = sys.factory
              /\ GetSourceOrigin(cs) = <<a[2], a[3], a[4]>>
              /\ sys.factory = "EPSG" => GetEPSGCode(cs) = Optional(a[1])
              /\ sys.factory = "WKT" => GetWKTString(cs) = Optional(a[1])
        /\ sys.factory \in {"ENU", "LocalCartesian"}
           => /\ GetVerticalDatum(cs) = "Ellipsoidal"
              /\ cs.type = sys.factory
              /\ sys.factory = "ENU" => GetSourceOrigin(cs) = <<a[4], a[5], a[6]>>

\* an EPSG system made with datum Orthometric has been set to Ellipsoidal
C21_Witness ==
    /\ last.op = "SetVerticalDatum"
    /\ last.in = "Ellipsoidal"
    /\ sys.factory = "EPSG"
    /\ sys.args = <<4547, 90, 0, 3, "Orthometric">>
    /\ GetVerticalDatum(sys.cs) = "Ellipsoidal"

\* ---------------------------------------------------------------------------
\* Tileset study: the root transform the tileset writers emit (tileset.cpp)
\* ---------------------------------------------------------------------------

\* angles in radians are counted in quarter turns (pi / 2), so that
\* radian * 180.0 / pi is a multiple of 90 degrees
RadToDeg(quarter_turns) ==
    90 * quarter_turns

\* a flattening that walks the rows first
FlattenRowMajor(m) ==
    [k \in 1..16 |-> m[((k - 1) % 4) + 1][((k - 1) \div 4) + 1]]

\* glm::value_ptr + memcpy: the sixteen doubles of a dmat4 as they lie in
\* memory, column after column
Flatten(m) ==
    [k \in 1..16 |-> m[((k - 1) \div 4) + 1][((k - 1) % 4) + 1]]

transfrom_xyz(lon_deg, lat_deg, height_min) ==
    Flatten(CalcEnuToEcefMatrix(lon_deg, lat_deg, height_min))

\* std::to_string(double): the "%f" numeral, held as its integer part and
\* its six fractional digits; the doubles of the model are whole numbers
to_string(v) ==
    [whole |-> v, fraction |-> <<0, 0, 0, 0, 0, 0>>]

\* the text "1" appended after the fifteen printed slots
LiteralOne ==
    [literal |-> "1"]

\* the number a JSON reader gets from an entry of the transform array; the
\* fractional digits of the model's numerals are all zero
EntryValue(e) ==
    IF "whole" \in DOMAIN e THEN e.whole ELSE 1

\* the "transform" array of the root: fifteen printed matrix slots and "1"
TransformEntries(matrix) ==
    [k \in 1..16 |-> IF k <= 15 THEN to_string(matrix[k]) ELSE LiteralOne]

\* the root object of the JSON text: the keys it has and the transform
RootWithTransform(matrix, volume) ==
    [keys |-> {"transform", "boundingVolume", "geometricError", "refine", "content"},
     transform |-> TransformEntries(matrix), volume |-> volume]

RootWithoutTransform(volume) ==
    [keys |-> {"boundingVolume", "geometricError", "refine", "content"},
     transform |-> <<>>, volume |-> volume]

\* the longitudes and latitudes (in quarter turns) and minimum heights the
\* writers are called with
TileLons == 0..3

TileLats == {-1, 0, 1}

TileHeights == {-3, 0, 5}

\* write_tileset_box(trans, box, ...): written says whether write_file
\* succeeded, which is the return value
WriteTilesetBox ==
    /\ \E has_trans \in BOOLEAN, x \in TileLons, y \in TileLats, h \in TileHeights,
          written \in BOOLEAN :
          /\ ~has_trans => (x = 0 /\ y = 0 /\ h = 0)
          /\ last' = Call("write_tileset_box",
                          [trans |-> has_trans, radian_x |-> x, radian_y |-> y, min_height |-> h],
                          [ret |-> written,
                           root |-> IF has_trans
                                    THEN RootWithTransform(
                                             transfrom_xyz(RadToDeg(x), RadToDeg(y), h), "box")
                                    ELSE RootWithoutTransform("box")],
                          "none")
    /\ UNCHANGED <<t, geoid, ctor, ts, handles, sys>>
    /\ UNCHANGED global

\* write_tileset_region(trans, region, ...)
WriteTilesetRegion ==
    /\ \E has_trans \in BOOLEAN, x \in TileLons, y \in TileLats, h \in TileHeights,
          written \in BOOLEAN :
          /\ ~has_trans => (x = 0 /\ y = 0 /\ h = 0)
          /\ last' = Call("write_tileset_region",
                          [trans |-> has_trans, radian_x |-> x, radian_y |-> y, min_height |-> h],
                          [ret |-> written,
                           root |-> IF has_trans
                                    THEN RootWithTransform(
                                             transfrom_xyz(RadToDeg(x), RadToDeg(y), h), "region")
                                    ELSE RootWithoutTransform("region")],
                          "none")
    /\ UNCHANGED <<t, geoid, ctor, ts, handles, sys>>
    /\ UNCHANGED global

\* write_tileset(radian_x, radian_y, ..., height_min, ...)
WriteTileset ==
    /\ \E x \in TileLons, y \in TileLats, h \in TileHeights, written \in BOOLEAN :
          last' = Call("write_tileset",
                       [trans |-> TRUE, radian_x |-> x, radian_y |-> y, min_height |-> h],
                       [ret |-> written,
                        root |-> RootWithTransform(
                                     transfrom_xyz(RadToDeg(x), RadToDeg(y), h), "box")],
                       "none")
    /\ UNCHANGED <<t, geoid, ctor, ts, handles, sys>>
    /\ UNCHANGED global

TilesetOps == {"write_tileset", "write_tileset_box", "write_tileset_region"}

\* C22: every tileset writer that emits a root transform emits exactly 16
\* entries; entries 0..14 are slots 0..14 of CalcEnuToEcefMatrix(lon, lat,
\* min_height) in column-major order, the translation in entries 12..14,
\* and entry 15 is the literal 1; write_tileset_box and
\* write_tileset_region emit no transform key when trans is null.
C22_RootTransform ==
    last.op \in TilesetOps
    => LET m == CalcEnuToEcefMatrix(RadToDeg(last.in.radian_x), RadToDeg(last.in.radian_y),
                                    last.in.min_height)
           e == last.out.root.transform
           o == CartographicToEcef(RadToDeg(last.in.radian_x), RadToDeg(last.in.radian_y),
                                   last.in.min_height)
       IN  IF last.in.trans
           THEN /\ "transform" \in last.out.root.keys
                /\ Len(e) = 16
                /\ \A c \in 1..4, r \in 1..4 :
                      4 * (c - 1) + r <= 15 => EntryValue(e[4 * (c - 1) + r]) = m[c][r]
                /\ <<EntryValue(e[13]), EntryValue(e[14]), EntryValue(e[15])>> = o
                /\ e[16] = LiteralOne
           ELSE /\ "transform" \notin last.out.root.keys
                /\ last.op # "write_tileset"

\* write_tileset_region wrote a root transform for a tile on the equator at
\* 90 degrees east with minimum height 5
C22_Witness ==
    /\ last.op = "write_tileset_region"
    /\ last.in = [trans |-> TRUE, radian_x |-> 1, radian_y |-> 0, min_height |-> 5]
    /\ EntryValue(last.out.root.transform[14]) = WGS84_A + 5
    /\ EntryValue(last.out.root.transform[1]) = -1
    /\ last.out.ret

\* ---------------------------------------------------------------------------
\* init_geoid and the parsing of geoid model names; a std::string is the
\* sequence of its characters, a const char* is null or such a sequence
\* ---------------------------------------------------------------------------

\* the only spellings StringToGeoidModel compares with
StringToGeoidModel(str) ==
    IF str = <<"e", "g", "m", "8", "4">> \/ str = <<"E", "G", "M", "8", "4">>
    THEN "EGM84"
    ELSE IF str = <<"e", "g", "m", "9", "6">> \/ str = <<"E", "G", "M", "9", "6">>
    THEN "EGM96"
    ELSE IF str = <<"e", "g", "m", "2", "0", "0", "8">>
            \/ str = <<"E", "G", "M", "2", "0", "0", "8">>
    THEN "EGM2008"
    ELSE "NONE"

\* a null const char*
NullPtr == [null |-> TRUE, chars |-> <<>>]

\* a const char* to the characters
CStr(chars) == [null |-> FALSE, chars |-> chars]

\* std::string model_str = model ? model : "none"
ModelStr(model) ==
    IF model.null THEN <<"n", "o", "n", "e">> ELSE model.chars

\* every spelling of "egm" followed by the digits
Spellings(digits) ==
    {<<e, g, m>> \o digits : e \in {"e", "E"}, g \in {"g", "G"}, m \in {"m", "M"}}

\* the model names init_geoid is called with
ModelNames ==
         {NullPtr}
    \cup {CStr(s) : s \in Spellings(<<"8", "4">>) \cup Spellings(<<"9", "6">>)
                          \cup Spellings(<<"2", "0", "0", "8">>)}
    \cup {CStr(<<"n", "o", "n", "e">>), CStr(<<"N", "O", "N", "E">>), CStr(<<>>),
          CStr(<<"e", "g", "m">>), CStr(<<"e", "g", "m", "9", "6", "-", "5">>)}

\* init_geoid(model, geoid_path): the name is parsed and the global
\* calculator initialized; the call record keeps the model selected
CallInitGeoid ==
    /\ \E model \in ModelNames, loaded \in BOOLEAN :
          LET geoid_model == StringToGeoidModel(ModelStr(model))
          IN  /\ geoid' = Initialize(geoid, geoid_model, loaded)
              /\ last' = Call("init_geoid", model, geoid_model = "NONE" \/ loaded, geoid_model)
    /\ UNCHANGED <<t, ctor, ts, handles, sys>>
    /\ UNCHANGED global

NextGeoid ==
    \/ GeoidInitialize
    \/ CallGetGeoidHeight
    \/ CallConvertOrthometricToEllipsoidal
    \/ CallConvertEllipsoidalToOrthometric
    \/ CallInitGeoid

SpecGeoid == Init /\ [][NextGeoid]_vars

\* the lower-case form of a character and of a string
LowerChar(c) ==
    CASE c = "E" -> "e"
      [] c = "G" -> "g"
      [] c = "M" -> "m"
      [] c = "N" -> "n"
      [] c = "O" -> "o"
      [] OTHER   -> c

Lower(str) ==
    [i \in 1..Len(str) |-> LowerChar(str[i])]

\* the upper-case form of a character and of a string
UpperChar(c) ==
    CASE c = "e" -> "E"
      [] c = "g" -> "G"
      [] c = "m" -> "M"
      [] c = "n" -> "N"
      [] c = "o" -> "O"
      [] OTHER   -> c

Upper(str) ==
    [i \in 1..Len(str) |-> UpperChar(str[i])]

\* C23: geoid model names are parsed case-insensitively: every spelling of
\* egm84, egm96 or egm2008 in any mixture of upper and lower case selects
\* that model in StringToGeoidModel and init_geoid; every other string,
\* none and a null model pointer included, selects NONE.
C23_CaseInsensitiveModelName ==
    last.op = "init_geoid"
    => last.target =
          CASE Lower(ModelStr(last.in)) = <<"e", "g", "m", "8", "4">> -> "EGM84"
            [] Lower(ModelStr(last.in)) = <<"e", "g", "m", "9", "6">> -> "EGM96"
            [] Lower(ModelStr(last.in)) = <<"e", "g", "m", "2", "0", "0", "8">> -> "EGM2008"
            [] OTHER -> "NONE"

\* the part of C23 the code keeps: the all-lower and the all-upper spelling
\* select the model, and everything else selects NONE
C23_ExactSpellingsOnly ==
    last.op = "init_geoid"
    => LET str == ModelStr(last.in)
           uniform == str = Lower(str) \/ str = Upper(str)
       IN  last.target =
              CASE uniform /\ Lower(str) = <<"e", "g", "m", "8", "4">> -> "EGM84"
                [] uniform /\ Lower(str) = <<"e", "g", "m", "9", "6">> -> "EGM96"
                [] uniform /\ Lower(str) = <<"e", "g", "m", "2", "0", "0", "8">> -> "EGM2008"
                [] OTHER -> "NONE"

\* transform_c(center_x, center_y, height_min, ptr): the sixteen doubles
\* written to ptr, for a centre in degrees
TransformC ==
    /\ \E x \in TileLons, y \in TileLats, h \in TileHeights :
          last' = Call("transform_c", <<RadToDeg(x), RadToDeg(y), h>>,
                       transfrom_xyz(RadToDeg(x), RadToDeg(y), h), "none")
    /\ UNCHANGED <<t, geoid, ctor, ts, handles, sys>>
    /\ UNCHANGED global

NextTileset ==
    \/ WriteTilesetBox
    \/ WriteTilesetRegion
    \/ WriteTileset
    \/ TransformC

SpecTileset == Init /\ [][NextTileset]_vars

\* dot and cross product of 3-vectors
Dot(a, b) ==
    a[1] * b[1] + a[2] * b[2] + a[3] * b[3]

Cross(a, b) ==
    <<a[2] * b[3] - a[3] * b[2], a[3] * b[1] - a[1] * b[3], a[1] * b[2] - a[2] * b[1]>>

\* C24: CalcEnuToEcefMatrix(lon, lat, h) is the column-major matrix
\* [E | N | U | (x0, y0, z0, 1)] of the canonical WGS84 formula: E, N, U
\* are the east, north and up unit vectors at (lon, lat), a right-handed
\* orthonormal basis, with fourth components 0, and the translation column
\* is CartographicToEcef(lon, lat, h); at (0, 0, 0) the translation column
\* is (a, 0, 0, 1) with a = 6378137 and the east basis is (0, 1, 0).
C24_EnuToEcefMatrix ==
    last.op = "transform_c"
    => LET v   == last.out
           lon == last.in[1]
           lat == last.in[2]
           E   == <<v[1], v[2], v[3]>>
           N   == <<v[5], v[6], v[7]>>
           U   == <<v[9], v[10], v[11]>>
       IN  /\ E = <<0 - SinDeg(lon), CosDeg(lon), 0>>
           /\ U = <<CosDeg(lat) * CosDeg(lon), CosDeg(lat) * SinDeg(lon), SinDeg(lat)>>
           /\ N = Cross(U, E)
           /\ Dot(E, E) = 1 /\ Dot(N, N) = 1 /\ Dot(U, U) = 1
           /\ Dot(E, N) = 0 /\ Dot(E, U) = 0 /\ Dot(N, U) = 0
           /\ <<v[4], v[8], v[12], v[16]>> = <<0, 0, 0, 1>>
           /\ <<v[13], v[14], v[15]>> = CartographicToEcef(lon, lat, last.in[3])
           /\ last.in = <<0, 0, 0>>
              => /\ <<v[13], v[14], v[15], v[16]>> = <<6378137, 0, 0, 1>>
                 /\ E = <<0, 1, 0>>

\* the matrix at longitude 90, latitude -90 (the south pole), height 5
C24_Witness ==
    /\ last.op = "transform_c"
    /\ last.in = <<90, -90, 5>>
    /\ <<last.out[13], last.out[14], last.out[15]>> = <<0, 0, 0 - (WGS84_B + 5)>>
    /\ <<last.out[1], last.out[2], last.out[3]>> = <<-1, 0, 0>>

GetModel(calc) ==
    calc.model_

\* C25: after any sequence of Initialize calls, succeeding or failing, with
\* any model, IsInitialized() holds iff GetModel() is not NONE, and when it
\* holds GetModel() is the model of the most recent successful Initialize
\* (the one whose grid is loaded).
C25_ModelMatchesInitialized ==
    /\ IsInitialized(geoid) <=> GetModel(geoid) # "NONE"
    /\ IsInitialized(geoid) => geoid.geoid_ = GeoidName(GetModel(geoid))
    /\ (last.op = "Initialize" /\ last.in # "NONE" /\ last.out)
       => (IsInitialized(geoid) /\ GetModel(geoid) = last.in)

\* the part of C25 the code keeps: a loaded grid is always the one of
\* GetModel(), and GetModel() is NONE after Initialize(NONE)
C25_LoadedGridMatchesModel ==
    /\ IsInitialized(geoid) => geoid.geoid_ = GeoidName(GetModel(geoid))
    /\ GetModel(geoid) = "NONE" => ~IsInitialized(geoid)
    /\ (last.op = "Initialize" /\ last.in # "NONE" /\ last.out)
       => (IsInitialized(geoid) /\ GetModel(geoid) = last.in)

\* C27: an EPSG or WKT transformer constructed with a zero geo_ref and a
\* created projection handle maps the dataset origin to the local origin,
\* ToLocalENU((0,0,0)) = (0,0,0), for every vertical datum and geoid
\* configuration, as long as the geoid service has the grid it had at
\* construction and geoid_config.enabled is as the constructor set it.
C27_OriginMapsToLocalOrigin ==
    (/\ last.op = "ToLocalENU"
     /\ last.in = <<0, 0, 0>>
     /\ NeedsOGRTransform(t.source_cs)
     /\ t.ogr_transform # NullHandle
     /\ ctor.with_geo_ref
     /\ ctor.geo_ref = GeoReference(0, 0, 0)
     /\ ctor.geoid_ = geoid.geoid_
     /\ ctor.enabled = t.geoid_config.enabled)
    => last.out = <<0, 0, 0>>

\* the origin of an orthometric EPSG dataset, its height corrected by the
\* loaded grid at construction and at the call, has come out as (0,0,0)
C27_Witness ==
    /\ last.op = "ToLocalENU"
    /\ last.in = <<0, 0, 0>>
    /\ last.out = <<0, 0, 0>>
    /\ t.source_cs.type = "EPSG"
    /\ t.ogr_transform # NullHandle
    /\ ctor.with_geo_ref
    /\ ctor.geo_ref = GeoReference(0, 0, 0)
    /\ ctor.geoid_ = geoid.geoid_
    /\ ctor.enabled = t.geoid_config.enabled
    /\ ShouldApplyGeoidCorrection(t.source_cs, t.geoid_config, geoid)
    /\ t.geo_origin_height # Transform(t.ogr_transform, GetSourceOrigin(t.source_cs))[3]

\* ---------------------------------------------------------------------------
\* The process-global transformer of tileset.cpp: g_transformer is the one
\* shared_ptr that owns the object, so the object dies when g_transformer is
\* reassigned or reset.  Objects are numbered in allocation order; t is the
\* object g_transformer owns and ctor the history of its construction.
\* Each extern "C" function runs as one step.
\* ---------------------------------------------------------------------------

MaxAllocs == 2

\* the origins a caller passes in val[0..2]
Vals == {<<0, 0, 0>>, <<1, 0, 3>>}

\* GeoidConfig geoid_config; (default member initializers)
DefaultGeoidConfig ==
    [enabled |-> FALSE, model |-> "EGM96", data_path |-> ""]

\* the temporary poCT of epsg_convert / wkt_convert
TempHandle(crs, key) ==
    [crs |-> crs, key |-> key]

\* a failure path that returns with the poCT it created still alive
ConvertFailsKeepingHandle(op, in, v, made) ==
    /\ val' = v
    /\ temps' = temps + made
    /\ last' = Call(op, in, FALSE, "none")
    /\ UNCHANGED <<t, ctor, g_transformer, allocs>>

\* the three ways epsg_convert and wkt_convert return false: the state is
\* as before the call; a poCT that was created is destroyed again
ConvertFails(op, in, v, made) ==
    /\ val' = v
    /\ temps' = temps + made - made
    /\ last' = Call(op, in, FALSE, "none")
    /\ UNCHANGED <<t, ctor, g_transformer, allocs>>

\* g_transformer = std::make_shared<CoordinateTransformer>(...): the new
\* object is installed and the one owned before is destroyed
MakeShared(obj, history) ==
    /\ allocs' = allocs + 1
    /\ g_transformer' = allocs + 1
    /\ t' = obj
    /\ ctor' = history

\* epsg_convert(insrs, val, gdal_data, proj_lib).  imported: both
\* importFromEPSG calls succeed; ct: OGRCreateCoordinateTransformation
\* returns a poCT; transformed: poCT->Transform succeeds; created: the
\* constructor's own CreateOGRTransform gets a handle
epsg_convert ==
    /\ allocs < MaxAllocs
    /\ \E insrs \in {4547}, v \in Vals :
          LET cs   == EPSG(insrs, v[1], v[2], v[3], "Unknown")
              poCT == TempHandle("EPSG", insrs)
              wgs  == Transform(poCT, v)
              geo_ref == GeoReference(wgs[1], wgs[2], wgs[3])
              geoid_config == IF IsInitialized(geoid)
                              THEN [GeoidConfigEGM96("") EXCEPT !.enabled = TRUE]
                              ELSE DefaultGeoidConfig
          IN  \E imported \in BOOLEAN :
              IF ~imported THEN ConvertFails("epsg_convert", <<insrs, v>>, v, 0)
              ELSE \E ct \in BOOLEAN :
              IF ~ct THEN ConvertFails("epsg_convert", <<insrs, v>>, v, 0)
              ELSE \E transformed \in BOOLEAN :
              IF ~transformed THEN ConvertFails("epsg_convert", <<insrs, v>>, v, 1)
              ELSE \E created \in BOOLEAN :
                   /\ val' = wgs
                   /\ MakeShared(InitializeWithGeoRef(cs, geoid_config, geo_ref, created, geoid),
                                 Ctor(TRUE, geo_ref, geoid_config.enabled, geoid.geoid_))
                   /\ temps' = temps + 1 - 1
                   /\ last' = Call("epsg_convert", <<insrs, v>>, TRUE, "none")
    /\ UNCHANGED <<geoid, held, ts, handles, sys>>

\* enu_init(lon, lat, origin_enu, gdal_data, proj_lib): the one-argument
\* constructor; always returns true
enu_init ==
    /\ allocs < MaxAllocs
    /\ \E o \in {<<90, 0>>}, origin_enu \in {<<0, 0, 0>>} :
          /\ MakeShared(NewTransformer(ENU(o[1], o[2], 0,
                                           origin_enu[1], origin_enu[2], origin_enu[3])),
                        Ctor(FALSE, GeoReference(0, 0, 0), FALSE, geoid.geoid_))
          /\ last' = Call("enu_init", <<o, origin_enu>>, TRUE, "none")
    /\ UNCHANGED <<geoid, val, held, temps, ts, handles, sys>>

\* wkt_convert(wkt, val, path): importFromWkt is not checked; the height of
\* the geo_ref is corrected here when the geoid service is initialized, and
\* the two-argument constructor disables the transformer's own correction
wkt_convert ==
    /\ allocs < MaxAllocs
    /\ \E wkt \in {"PROJCS"}, v \in Vals :
          LET cs   == WKT(wkt, v[1], v[2], v[3], "Unknown")
              poCT == TempHandle("WKT", wkt)
              wgs  == Transform(poCT, v)
              final_height == IF IsInitialized(geoid)
                              THEN ConvertOrthometricToEllipsoidal(geoid, wgs[2], wgs[1], wgs[3])
                              ELSE wgs[3]
              geo_ref == GeoReference(wgs[1], wgs[2], final_height)
          IN  \E ct \in BOOLEAN :
              IF ~ct THEN ConvertFails("wkt_convert", <<wkt, v>>, v, 0)
              ELSE \E transformed \in BOOLEAN :
              IF ~transformed THEN ConvertFails("wkt_convert", <<wkt, v>>, v, 1)
              ELSE \E created \in BOOLEAN :
                   /\ val' = wgs
                   /\ MakeShared(InitializeWithGeoRef(cs, GeoidConfigDisabled, geo_ref,
                                                      created, geoid),
                                 Ctor(TRUE, geo_ref, FALSE, geoid.geoid_))
                   /\ temps' = temps + 1 - 1
                   /\ last' = Call("wkt_convert", <<wkt, v>>, TRUE, "none")
    /\ UNCHANGED <<geoid, held, ts, handles, sys>>

\* get_coordinate_transformer() / GetGlobalTransformer(): g_transformer.get()
get_coordinate_transformer ==
    /\ \E th \in Threads :
          /\ held' = [held EXCEPT ![th] = g_transformer]
          /\ last' = Call("get_coordinate_transformer", th, g_transformer, "none")
    /\ UNCHANGED <<t, geoid, ctor, g_transformer, val, temps, allocs, ts, handles, sys>>

\* cleanup_global_resources(): g_transformer.reset() destroys the object
cleanup_global_resources ==
    /\ g_transformer' = NullTransformer
    /\ t' = NoTransformer
    /\ ctor' = NoCtor
    /\ last' = Call("cleanup_global_resources", <<>>, <<>>, "none")
    /\ UNCHANGED <<geoid, val, held, temps, allocs, ts, handles, sys>>

\* a thread calls ToLocalENU through the raw pointer it holds.  On the
\* object g_transformer still owns the call is ToLocalENU of that object; on
\* a destroyed object the behaviour is undefined: what comes back is
\* unrelated to the call, here one of two arbitrary values
UseHeldTransformer ==
    /\ \E th \in Threads, p \in Points :
          /\ held[th] # NullTransformer
          /\ IF held[th] = g_transformer
             THEN last' = Call("ToLocalENU", p, ToLocalENU(t, geoid, p), "live")
             ELSE \E garbage \in {Pt(0), Pt(1)} :
                     last' = Call("ToLocalENU", p, garbage, "dangling")
    /\ UNCHANGED <<t, geoid, ctor, ts, handles, sys>>
    /\ UNCHANGED global

NextGlobal ==
    \/ epsg_convert
    \/ enu_init
    \/ wkt_convert
    \/ get_coordinate_transformer
    \/ cleanup_global_resources
    \/ UseHeldTransformer
    \/ InitGeoid

SpecGlobal == Init /\ [][NextGlobal]_vars

\* the projection of the origin a convert call was given
ProjectedVal(call) ==
    Transform(TempHandle(IF call.op = "epsg_convert" THEN "EPSG" ELSE "WKT", call.in[1]),
              call.in[2])

\* C26: epsg_convert and wkt_convert are all-or-nothing.  A call that
\* returns false leaves the installed global transformer (or its absence)
\* and the caller's val as they were and has destroyed the temporary
\* projection handle if it created one; a call that returns true has
\* replaced the global transformer by a new geo-referenced one, val holds
\* the projected (lon, lat, height), and no temporary handle is left.
C26_ConvertAllOrNothing ==
    [][(/\ last'.op \in {"epsg_convert", "wkt_convert"}
        /\ epsg_convert \/ wkt_convert) =>
          /\ temps' = temps
          /\ IF last'.out
             THEN /\ g_transformer' # NullTransformer
                  /\ g_transformer' # g_transformer
                  /\ g_transformer' \notin 1..allocs
                  /\ HasGeoReference(t')
                  /\ val' = ProjectedVal(last')
             ELSE /\ g_transformer' = g_transformer
                  /\ t' = t
                  /\ val' = last'.in[2]]_vars

\* no temporary projection handle outlives the call that created it
C26_NoTemporaryHandleLeft ==
    temps = 0

\* a wkt_convert whose Transform failed has returned false with a global
\* transformer installed before the call still in place and val as passed
C26_Witness ==
    /\ last.op = "wkt_convert"
    /\ ~last.out
    /\ g_transformer # NullTransformer
    /\ HasGeoReference(t)
    /\ val = last.in[2]
    /\ val # <<0, 0, 0>>
    /\ temps = 0

\* C28: after a successful epsg_convert or wkt_convert, with the geoid
\* service initialized beforehand or not, the installed global transformer
\* corrects point heights in ToLocalENU exactly when the origin height was
\* corrected, so the dataset origin (0,0,0) maps to local ENU (0,0,0); the
\* geoid service is as it was at the convert call.
C28_GlobalOriginMapsToLocalOrigin ==
    (/\ last.op = "ToLocalENU"
     /\ last.target = "live"
     /\ last.in = <<0, 0, 0>>
     /\ NeedsOGRTransform(t.source_cs)
     /\ ctor.geoid_ = geoid.geoid_)
    => last.out = <<0, 0, 0>>

\* the part of C28 the code keeps: the transformer of epsg_convert, and the
\* one of wkt_convert made while the geoid service was not initialized
C28_EpsgOriginMapsToLocalOrigin ==
    (/\ last.op = "ToLocalENU"
     /\ last.target = "live"
     /\ last.in = <<0, 0, 0>>
     /\ NeedsOGRTransform(t.source_cs)
     /\ ctor.geoid_ = geoid.geoid_
     /\ t.source_cs.type = "WKT" => ~IsInitialized(geoid))
    => last.out = <<0, 0, 0>>

\* an epsg_convert made with the geoid service initialized: origin and
\* point heights are both corrected
C28_EpsgCorrectedReached ==
    /\ last.op = "ToLocalENU"
    /\ last.target = "live"
    /\ last.in = <<0, 0, 0>>
    /\ last.out = <<0, 0, 0>>
    /\ t.source_cs.type = "EPSG"
    /\ t.ogr_transform # NullHandle
    /\ ctor.geoid_ = geoid.geoid_
    /\ ShouldApplyGeoidCorrection(t.source_cs, t.geoid_config, geoid)
    /\ t.geo_origin_height # val[3]

\* C29: under any interleaving of threads, a raw pointer obtained from
\* get_coordinate_transformer() / GetGlobalTransformer() never refers to a
\* destroyed transformer while it is in use: no later or concurrent
\* epsg_convert, enu_init, wkt_convert or cleanup_global_resources destroys
\* the object a pointer handed out before refers to.
C29_HeldPointerStaysAlive ==
    last.op = "ToLocalENU" => last.target # "dangling"

\* what the single owner does guarantee: at most one transformer is alive,
\* the one g_transformer owns, and it is the most recently made one
C29_SingleOwner ==
    /\ g_transformer \in {NullTransformer, allocs}
    /\ g_transformer = NullTransformer <=> t = NoTransformer
    /\ \A th \in Threads : held[th] \in 0..allocs

\* a move from slot j into slot i has transferred the complete state: the
\* target holds every member the source held, answers every operation on
\* every point as the source did, and the source is left without a handle,
\* so that its EPSG/WKT ToLocalENU returns the input
Transferred(i, j) ==
    /\ ts[j] # NoTransformer
    /\ ts'[i] = ts[j]
    /\ ResultsOf(ts'[i], geoid') = ResultsOf(ts[j], geoid)
    /\ ts'[j] # NoTransformer
    /\ ts'[j].ogr_transform = NullHandle
    /\ NeedsOGRTransform(ts'[j].source_cs)
       => \A p \in Points : ToLocalENU(ts'[j], geoid', p) = p

\* C30: move construction and move assignment transfer the complete
\* transformer state: afterwards the target returns, for every operation
\* and every point, what the source returned before the move (same mode,
\* geo origin, matrices, geoid config and projection handle), and the
\* moved-from transformer holds no projection handle, so its EPSG/WKT
\* ToLocalENU returns the input unchanged.
C30_MoveTransfersState ==
    [][(MoveConstruct \/ MoveAssign)
          => \E i \in Slots, j \in Slots : i # j /\ Transferred(i, j)]_vars

\* after a move of a WKT transformer that held a handle: the target holds
\* the handle and projects, the moved-from object (its string emptied by
\* the move) has none and returns the input
C30_Witness ==
    \E i \in Slots, j \in Slots :
        /\ ts[i] # NoTransformer
        /\ ts[j] # NoTransformer
        /\ ts[i].source_cs.type = "WKT"
        /\ ts[i].source_cs.params.wkt = "PROJCS"
        /\ ts[i].ogr_transform # NullHandle
        /\ ts[j] = [ts[i] EXCEPT !.ogr_transform = NullHandle, !.source_cs.params.wkt = ""]
        /\ ToLocalENU(ts[j], geoid, Pt(1)) = Pt(1)
        /\ ToLocalENU(ts[i], geoid, Pt(1)) # Pt(1)

====
